---- MODULE Spec2Model ----
(***************************************************************************)
(* A state-machine model of the CAKE queueing discipline (sch_cake.c,      *)
(* version 3): classifier, per-tin DRR flow scheduler, tin scheduler,      *)
(* dual-rate shaper and memory-pressure drop.  The CoDel primitive         *)
(* (codel5.h) is modelled from its contract.                               *)
(*                                                                         *)
(* Numbers.  TLC integers are 32-bit signed, so a u32 that may exceed      *)
(* 2^31-1 (rate_ns, the intermediate buffer_limit) is kept as a pair of    *)
(* 16-bit limbs [hi, lo]; times are nanoseconds kept below 2^31 by the     *)
(* clock bound.                                                            *)
(***************************************************************************)
EXTENDS Integers, Sequences, FiniteSets, TLC

(* ------------------------------------------------------------------ *)
(* Program constants                                                   *)
(* ------------------------------------------------------------------ *)
CAKE_MAX_TINS == 8
CAKE_MODE_BESTEFFORT == 1
CAKE_MODE_PRECEDENCE == 2
CAKE_MODE_DIFFSERV8 == 3
CAKE_MODE_DIFFSERV4 == 4
CAKE_FLOW_NONE == 0
CAKE_FLOW_FLOWS == 4
NSEC_PER_SEC == 1000000000
NSEC_PER_USEC == 1000
MIN_RATE == 64
DefaultQuantum == 1514
SchLimit == 10240
DefaultInterval == 100000
DefaultTarget == 5000

(* ------------------------------------------------------------------ *)
(* Bounds of the model                                                 *)
(* ------------------------------------------------------------------ *)
\* flows per tin (1024 in cake_init)
FlowsCnt == 2
\* packets offered to enqueue in one run
MaxPkts == 3
\* operations in one run
MaxSteps == 6
\* dequeue calls in one run
MaxDeq == 3
\* direct calls of the drop operation in one run
MaxDrops == 1
\* clock ticks in one run
MaxTicks == 2
\* configuration changes in one run
MaxChanges == 1
\* resets in one run
MaxResets == 1
\* operations, and packets offered to enqueue, in one run of the round-robin
\* specification with every operation
MaxBulkSteps == 7
MaxBulkPkts == 4
\* packets offered to enqueue in one run of the round-robin specification
MaxDrrPkts == 6
\* dequeue calls in one run of the round-robin specification
MaxDrrDeq == 4
\* configuration operations in one run of the configuration specification
MaxCfgOps == 3
\* packets offered to enqueue in one run of the liveness specification
MaxLivePkts == 5
\* fuel of the loops of cake_dequeue (a run that exhausts it is reported hung)
LoopFuel == 3000

Tins == 0 .. (CAKE_MAX_TINS - 1)
Flows == 0 .. (FlowsCnt - 1)

(* ------------------------------------------------------------------ *)
(* Arithmetic helpers                                                  *)
(* ------------------------------------------------------------------ *)
Min(a, b) == IF a < b THEN a ELSE b
Max(a, b) == IF a > b THEN a ELSE b

RECURSIVE Pow2(_)
Pow2(n) == IF n = 0 THEN 1 ELSE 2 * Pow2(n - 1)

\* a u32 as two 16-bit limbs
U32(hi, lo) == [hi |-> hi, lo |-> lo]
ToU32(n) == U32(n \div 65536, n % 65536)
U32_MAX == U32(65535, 65535)
U32Zero == U32(0, 0)
U32Lt(a, b) == a.hi < b.hi \/ (a.hi = b.hi /\ a.lo < b.lo)
U32Min(a, b) == IF U32Lt(a, b) THEN a ELSE b
U32Max(a, b) == IF U32Lt(a, b) THEN b ELSE a
U32FitsInt(a) == a.hi < 32768
U32ToInt(a) == a.hi * 65536 + a.lo

\* (len * (u64) rate_ns) >> rate_shft, rate_ns given in limbs
MulShr(len, rn, shft) ==
    LET A == len * rn.hi
        B == len * rn.lo
    IN  IF shft >= 16
        THEN (A + (B \div 65536)) \div Pow2(shft - 16)
        ELSE A * Pow2(16 - shft) + (B \div Pow2(shft))

U32Shr1(a) == U32(a.hi \div 2, (a.lo + (a.hi % 2) * 65536) \div 2)
\* u32 addition, wrapping at 2^32
U32Add(a, b) ==
    LET lo == a.lo + b.lo
        hi == a.hi + b.hi + (lo \div 65536)
    IN  U32(hi % 65536, lo % 65536)
\* the u32 an s16 converts to (sign extension)
U32OfS16(v) == U32(IF v < 0 THEN 65535 ELSE 0, (v + 65536) % 65536)
\* u32 division by d and u32 multiplication by m, wrapping at 2^32 (d, m < 2^15)
U32DivSmall(a, d) == U32(a.hi \div d, ((a.hi % d) * 65536 + a.lo) \div d)
U32MulSmall(a, m) ==
    LET lo == a.lo * m
        hi == a.hi * m + (lo \div 65536)
    IN  U32(hi % 65536, lo % 65536)

\* floor(x * y / m) and the remainder, without forming x * y (x, m < 2^30),
\* taking y one digit at a time: digits of 8 bits when m < 2^22, of 1 bit
\* otherwise, so that no intermediate value reaches 2^31
MulDivRadix(m) == IF m < 4194304 THEN 256 ELSE 2

\* one digit: h is the result for y \div R, d the digit y % R
MulDivModStep(x, d, m, R, h) ==
    LET t == R * h.rem + (x % m) * d
    IN  [quo |-> R * h.quo + (x \div m) * d + (t \div m), rem |-> t % m]

RECURSIVE MulDivMod(_, _, _)
MulDivMod(x, y, m) ==
    IF y = 0 THEN [quo |-> 0, rem |-> 0]
    ELSE MulDivModStep(x, y % MulDivRadix(m), m, MulDivRadix(m),
                       MulDivMod(x, y \div MulDivRadix(m), m))

\* the 60-bit product a * b (a, b < 2^30) as two 30-bit halves, and its order
Mul60(a, b) ==
    LET a1 == a \div 32768
        a0 == a % 32768
        b1 == b \div 32768
        b0 == b % 32768
        mid == a1 * b0 + a0 * b1
        low == a0 * b0 + (mid % 32768) * 32768
    IN  [hi |-> a1 * b1 + (mid \div 32768) + (low \div 1073741824),
         lo |-> low % 1073741824]
Le60(u, v) == u.hi < v.hi \/ (u.hi = v.hi /\ u.lo <= v.lo)

\* the s16 that holds the low 16 bits of v
S16(v) == ((v + 32768) % 65536) - 32768
\* the u16 that holds the low 16 bits of v
U16(v) == v % 65536

(* ------------------------------------------------------------------ *)
(* Data model: struct cake_flow, cake_tin_data, cake_sched_data        *)
(* ------------------------------------------------------------------ *)
\* codel_vars_init: all of struct codel_vars zeroed
codel_vars_init ==
    [count |-> 0, lastcount |-> 0, dropping |-> FALSE, drop_next |-> 0,
     drop_count |-> 0, ecn_mark |-> 0, first_above_time |-> 0]

\* a zeroed struct cake_flow; head is the FIFO from flow->head on
cake_flow == [head |-> <<>>, deficit |-> 0, dropped |-> 0, cvars |-> codel_vars_init]

\* a struct cake_tin_data as cake_init leaves it before cake_reconfigure
cake_tin_data ==
    [flows |-> [f \in Flows |-> cake_flow],
     backlogs |-> [f \in Flows |-> 0],
     quantum |-> 0, bulk_flow_count |-> 0, drop_overlimit |-> 0,
     new_flows |-> <<>>, old_flows |-> <<>>,
     tin_time_next_packet |-> 0,
     tin_rate_ns |-> U32Zero, tin_rate_bps |-> 0, tin_rate_shft |-> 0,
     tin_quantum_prio |-> 0, tin_quantum_band |-> 0,
     tin_deficit |-> 0, tin_backlog |-> 0, tin_dropped |-> 0, tin_ecn_mark |-> 0,
     packets |-> 0, bytes |-> 0]

SeqToSet(s) == {s[i] : i \in 1 .. Len(s)}
\* list_empty(&flow->flowchain): the flow is on neither list of its tin
list_empty_flowchain(b, idx) ==
    idx \notin SeqToSet(b.new_flows) /\ idx \notin SeqToSet(b.old_flows)
SeqRemove(s, x) == SelectSeq(s, LAMBDA y : y # x)
\* a move to the tail of new_flows
list_move_tail_new(b, idx) ==
    [b EXCEPT !.new_flows = Append(SeqRemove(b.new_flows, idx), idx),
              !.old_flows = SeqRemove(b.old_flows, idx)]
\* list_move_tail(&flow->flowchain, &b->old_flows)
list_move_tail_old(b, idx) ==
    [b EXCEPT !.new_flows = SeqRemove(b.new_flows, idx),
              !.old_flows = Append(SeqRemove(b.old_flows, idx), idx)]
\* list_del_init(&flow->flowchain)
list_del_init(b, idx) ==
    [b EXCEPT !.new_flows = SeqRemove(b.new_flows, idx),
              !.old_flows = SeqRemove(b.old_flows, idx)]

(* ------------------------------------------------------------------ *)
(* Rate conversion and the four Diffserv configurations                *)
(* ------------------------------------------------------------------ *)
\* rate_ns = (NSEC_PER_SEC << 32) / r shifted right until it fits in 32 bits,
\* rate_shft = 32 - number of shifts: that is floor(NSEC_PER_SEC * 2^j / r) for
\* the largest j <= 32 that fits; computed one quotient bit at a time.
\* One bit: d.ns is the quotient so far, d.rem the remainder, d.shft the
\* number of bits taken, d.full is set once another bit would not fit.
RateDivStep(d, r) ==
    IF d.full THEN d
    ELSE LET rem2 == 2 * d.rem
             bit == IF rem2 >= r THEN 1 ELSE 0
             lo2 == 2 * d.ns.lo + bit
             hi2 == 2 * d.ns.hi + (lo2 \div 65536)
         IN  IF hi2 >= 65536 THEN [d EXCEPT !.full = TRUE]
             ELSE [ns |-> U32(hi2, lo2 % 65536), rem |-> rem2 - bit * r,
                   shft |-> d.shft + 1, full |-> FALSE]

\* n bits, one after the other: the first half of them, then (unless the
\* quotient is full already) the rest
RECURSIVE RateDiv(_, _, _)
RateDivRest(d, n, r) == IF d.full THEN d ELSE RateDiv(d, n, r)

RateDiv(d, n, r) ==
    IF n = 1 THEN RateDivStep(d, r)
    ELSE RateDivRest(RateDiv(d, n \div 2, r), n - (n \div 2), r)

\* lines 682-688: rate_ns and rate_shft for the divisor r = max(MIN_RATE, rate)
RateNs(r) ==
    RateDiv([ns |-> ToU32(NSEC_PER_SEC \div r), rem |-> NSEC_PER_SEC % r,
             shft |-> 0, full |-> FALSE], 32, r)

\* lines 681-693 for a non-zero rate, d being the rate_ns and rate_shft found
SetRateFields(b, rate, d) ==
    [b EXCEPT !.quantum = Max(Min(rate \div 4096, DefaultQuantum), 300),
              !.tin_rate_bps = rate,
              !.tin_rate_ns = d.ns,
              !.tin_rate_shft = d.shft]

\* a conversion that treats rate 0 like any other rate
cake_set_rate_unguarded(b, rate) ==
    SetRateFields(b, rate, RateNs(Max(MIN_RATE, rate)))

cake_set_rate(b, rate) ==
    IF rate # 0
    THEN SetRateFields(b, rate, RateNs(Max(MIN_RATE, rate)))
    ELSE [b EXCEPT !.quantum = DefaultQuantum,
                   !.tin_rate_bps = rate,
                   !.tin_rate_ns = U32Zero,
                   !.tin_rate_shft = 0]

\* the loop "for (i = 0; i < q->tin_cnt; i++)" of cake_config_precedence and
\* cake_config_diffserv8: rate *= 7/8, quantum1 *= 3/2, quantum2 *= 7/8 per tin
\* lines 732-733: the quanta of a tin whose rate is set
SetQuanta(b, quantum1, quantum2) ==
    [b EXCEPT !.tin_quantum_prio = Max(1, U16(quantum1)),
              !.tin_quantum_band = Max(1, U16(quantum2))]

RECURSIVE ConfigProgression(_, _, _, _, _, _)
ConfigProgression(tins, i, cnt, rate, quantum1, quantum2) ==
    IF i >= cnt THEN tins
    ELSE ConfigProgression(
             [tins EXCEPT ![i] = SetQuanta(cake_set_rate(@, rate), quantum1, quantum2)],
             i + 1, cnt, (rate * 7) \div 8, (quantum1 * 3) \div 2,
             (quantum2 * 7) \div 8)

cake_config_besteffort(q) ==
    [q EXCEPT !.tin_cnt = 1,
              !.tin_index = [i \in 0 .. 63 |-> 0],
              !.tins[0] = [cake_set_rate(@, q.rate_bps) EXCEPT
                              !.tin_quantum_band = 65535,
                              !.tin_quantum_prio = 65535]]

\* a precedence table that pairs the codepoints by their top two bits
cake_config_precedence_coarse(q) ==
    [q EXCEPT !.tin_cnt = 8,
              !.tin_index = [i \in 0 .. 63 |-> Min(i \div 16, 8)],
              !.tins = ConfigProgression(q.tins, 0, 8, q.rate_bps, 256, 256)]

cake_config_precedence(q) ==
    [q EXCEPT !.tin_cnt = 8,
              !.tin_index = [i \in 0 .. 63 |-> Min(i \div 8, 8)],
              !.tins = ConfigProgression(q.tins, 0, 8, q.rate_bps, 256, 256)]

\* the codepoint to class mapping of cake_config_diffserv8
Diffserv8Index(i) ==
    CASE i = 8 -> 0
      [] i \in {2, 10, 12, 14} -> 1
      [] i \in {24, 26, 28, 30, 34, 36, 38} -> 3
      [] i \in {4, 18, 20, 22} -> 4
      [] i \in {1, 16} -> 5
      [] i \in {32, 40, 44, 46} -> 6
      [] i \in {48, 56} -> 7
      [] OTHER -> 2

cake_config_diffserv8(q) ==
    [q EXCEPT !.tin_cnt = 8,
              !.tin_index = [i \in 0 .. 63 |-> Diffserv8Index(i)],
              !.tins = ConfigProgression(q.tins, 0, 8, q.rate_bps, 256, 256)]

\* the codepoint to class mapping of cake_config_diffserv4
Diffserv4Index(i) ==
    CASE i = 8 -> 0
      [] i \in {24, 4, 1, 16, 18, 20, 22, 26, 28, 30, 34, 36, 38} -> 2
      [] i \in {32, 40, 44, 46, 48, 56} -> 3
      [] OTHER -> 1

cake_config_diffserv4(q) ==
    [q EXCEPT !.tin_cnt = 4,
              !.tin_index = [i \in 0 .. 63 |-> Diffserv4Index(i)],
              !.tins[0] = [cake_set_rate(@, q.rate_bps) EXCEPT
                              !.tin_quantum_prio = 256 \div 16,
                              !.tin_quantum_band = 256 \div 16],
              !.tins[1] = [cake_set_rate(@, q.rate_bps - (q.rate_bps \div 16)) EXCEPT
                              !.tin_quantum_prio = 256,
                              !.tin_quantum_band = (256 \div 8) + (256 \div 16)],
              !.tins[2] = [cake_set_rate(@, q.rate_bps - (q.rate_bps \div 4)) EXCEPT
                              !.tin_quantum_prio = 256 * 4,
                              !.tin_quantum_band = 256 \div 2],
              !.tins[3] = [cake_set_rate(@, q.rate_bps \div 4) EXCEPT
                              !.tin_quantum_prio = 256 * 16,
                              !.tin_quantum_band = 256 \div 4]]

(* ------------------------------------------------------------------ *)
(* custom_dequeue, cake_clear_tin, cake_reset                          *)
(* ------------------------------------------------------------------ *)
\* custom_dequeue at the cursors (q->cur_tin, q->cur_flow): the engine after the
\* call and the packet taken ("skb", a sequence of length 0 or 1)
custom_dequeue(q) ==
    LET b == q.tins[q.cur_tin]
        flow == b.flows[q.cur_flow]
    IN  IF flow.head # <<>>
        THEN LET skb == Head(flow.head)
                 b1 == [b EXCEPT !.flows[q.cur_flow].head = Tail(flow.head),
                                 !.backlogs[q.cur_flow] = @ - skb.len,
                                 !.tin_backlog = @ - skb.len]
             IN  [q |-> [q EXCEPT !.tins[q.cur_tin] = b1,
                                  !.buffer_used = @ - skb.truesize,
                                  !.qlen = @ - 1],
                  skb |-> <<skb>>]
        ELSE [q |-> q, skb |-> <<>>]

\* "while (custom_dequeue(NULL, sch)) ;" for the flow under the cursor: every
\* packet of the FIFO is taken by custom_dequeue and the result discarded
RECURSIVE DrainFlow(_)
DrainFlow(q) ==
    IF q.tins[q.cur_tin].flows[q.cur_flow].head = <<>> THEN q
    ELSE DrainFlow(custom_dequeue(q).q)

\* "for (q->cur_flow = 0; q->cur_flow < b->flows_cnt; q->cur_flow++)"
RECURSIVE ClearFlows(_)
ClearFlows(q) ==
    IF q.cur_flow >= FlowsCnt THEN q
    ELSE ClearFlows([DrainFlow(q) EXCEPT !.cur_flow = @ + 1])

cake_clear_tin(q, tin) ==
    ClearFlows([q EXCEPT !.cur_tin = tin, !.cur_flow = 0])

RECURSIVE ClearTinsFrom(_, _)
ClearTinsFrom(q, c) ==
    IF c >= CAKE_MAX_TINS THEN q ELSE ClearTinsFrom(cake_clear_tin(q, c), c + 1)

cake_reset(q) == ClearTinsFrom(q, 0)

(* ------------------------------------------------------------------ *)
(* cake_reconfigure, cake_change, cake_init                            *)
(* ------------------------------------------------------------------ *)
\* psched_mtu(qdisc_dev(sch)) of the device the qdisc is attached to
psched_mtu == 1514
USEC_PER_SEC == 1000000
US2TIME(a) == a * NSEC_PER_USEC

\* the buffer_limit chosen by lines 952-962, before the final clamp
BufferLimitWanted(q) ==
    IF q.buffer_config_limit # 0 THEN ToU32(q.buffer_config_limit)
    ELSE IF q.rate_bps # 0
         THEN ToU32(Max(MulDivMod(q.rate_bps, q.interval, USEC_PER_SEC \div 4).quo,
                        65536))
         ELSE U32_MAX

\* no final clamp
BufferLimitUnclamped(q, wanted) == wanted

\* lines 972-974: the final clamp of buffer_limit
BufferLimitClamp(q, wanted) ==
    U32Min(wanted, U32Max(ToU32(q.limit * psched_mtu), ToU32(q.buffer_config_limit)))

\* lines 923-942: the configuration for the Diffserv mode
ConfigureTins(q) ==
    CASE q.tin_mode = CAKE_MODE_PRECEDENCE -> cake_config_precedence(q)
      [] q.tin_mode = CAKE_MODE_DIFFSERV8 -> cake_config_diffserv8(q)
      [] q.tin_mode = CAKE_MODE_DIFFSERV4 -> cake_config_diffserv4(q)
      [] OTHER -> cake_config_besteffort(q)

\* a reconfiguration that clears no tin
ClearUnusedTinsSkipped(q) == q

\* lines 944-946: "for (c = q->tin_cnt; c < CAKE_MAX_TINS; c++) cake_clear_tin"
ClearUnusedTins(q) == ClearTinsFrom(q, q.tin_cnt)

\* lines 948-974: the engine-level rate, buffer limit and CoDel parameters
SetEngineParams(q) ==
    [q EXCEPT !.rate_ns = q.tins[0].tin_rate_ns,
              !.rate_shft = q.tins[0].tin_rate_shft,
              !.cparams = [target |-> Max(US2TIME(q.target), 0),
                           interval |-> US2TIME(q.interval)],
              !.can_bypass = (q.rate_bps = 0),
              !.buffer_limit = BufferLimitClamp(q, BufferLimitWanted(q))]

cake_reconfigure(q) == SetEngineParams(ClearUnusedTins(ConfigureTins(q)))

\* the attribute assignments of cake_change (lines 990-1038); tb maps the
\* attributes present in the option blob to their values
HasAttr(tb, a) == a \in DOMAIN tb
\* "if (!!nla_get_u32(tb[a])) rate_flags |= name; else rate_flags &= ~name;"
SetFlag(fl, tb, a, name) ==
    IF HasAttr(tb, a) THEN (IF tb[a] # 0 THEN fl \cup {name} ELSE fl \ {name}) ELSE fl
\* "if (!q->interval) q->interval = 1;" and the same for target
NonZero(v) == IF v = 0 THEN 1 ELSE v

ApplyAttrs(q, tb) ==
    [q EXCEPT
      !.rate_bps = IF HasAttr(tb, "BASE_RATE") THEN tb["BASE_RATE"] ELSE @,
      !.tin_mode = IF HasAttr(tb, "DIFFSERV_MODE") THEN tb["DIFFSERV_MODE"] ELSE @,
      !.rate_flags = SetFlag(SetFlag(SetFlag(@, tb, "ATM", "ATM"), tb, "WASH", "WASH"),
                             tb, "AUTORATE", "AUTORATE_INGRESS"),
      !.flow_mode = IF HasAttr(tb, "FLOW_MODE") THEN tb["FLOW_MODE"] ELSE @,
      !.rate_overhead = IF HasAttr(tb, "OVERHEAD") THEN S16(tb["OVERHEAD"]) ELSE @,
      !.interval = IF HasAttr(tb, "RTT") THEN NonZero(tb["RTT"]) ELSE @,
      !.target = IF HasAttr(tb, "TARGET") THEN NonZero(tb["TARGET"]) ELSE @,
      !.buffer_config_limit = IF HasAttr(tb, "MEMORY") THEN tb["MEMORY"] ELSE @]

\* opt.kind is "null" (no option blob), "bad" (nla_parse_nested fails) or "ok"
\* lines 1040-1044: "if (q->tins) cake_reconfigure(sch)"
ReconfigureIfBuilt(q) == IF q.have_tins THEN cake_reconfigure(q) ELSE q

\* a cake_change that neither looks for a missing blob nor at the parse result
cake_change_unchecked(q, opt) ==
    [q |-> ReconfigureIfBuilt(ApplyAttrs(q, opt.tb)), err |-> "OK"]

cake_change(q, opt) ==
    IF opt.kind = "null" THEN [q |-> q, err |-> "EINVAL"]
    ELSE IF opt.kind = "bad" THEN [q |-> q, err |-> "EPARSE"]
    ELSE [q |-> ReconfigureIfBuilt(ApplyAttrs(q, opt.tb)), err |-> "OK"]

\* the zeroed qdisc private data and Qdisc fields cake_init starts from
ZeroSched ==
    [tins |-> [t \in Tins |-> cake_tin_data], have_tins |-> FALSE,
     cparams |-> [target |-> 0, interval |-> 0],
     tin_cnt |-> 0, tin_mode |-> 0, flow_mode |-> 0,
     rate_shft |-> 0, time_next_packet |-> 0, rate_ns |-> U32Zero, rate_bps |-> 0,
     rate_flags |-> {}, rate_overhead |-> 0, interval |-> 0, target |-> 0,
     buffer_used |-> 0, buffer_limit |-> U32Zero, buffer_config_limit |-> 0,
     cur_tin |-> 0, cur_flow |-> 0, watchdog |-> 0,
     tin_index |-> [i \in 0 .. 63 |-> 0],
     qlen |-> 0, backlog |-> 0, drops |-> 0, overlimits |-> 0,
     limit |-> 0, can_bypass |-> FALSE, oops |-> FALSE, warned |-> FALSE]

\* cake_init with option blob opt ("null" kind: no options); the allocations succeed
InitDefaults ==
    [ZeroSched EXCEPT !.limit = SchLimit,
                      !.tin_mode = CAKE_MODE_DIFFSERV4,
                      !.flow_mode = CAKE_FLOW_FLOWS,
                      !.rate_bps = 0,
                      !.interval = DefaultInterval,
                      !.target = DefaultTarget,
                      !.cur_tin = 0, !.cur_flow = 0]

\* lines 1100-1141, r being what cake_change returned for the options (if any)
InitBuild(r) ==
    IF r.err # "OK" THEN r
    ELSE [q |-> cake_reconfigure([r.q EXCEPT !.have_tins = TRUE]), err |-> "OK"]

cake_init(opt) ==
    InitBuild(IF opt.kind = "null" THEN [q |-> InitDefaults, err |-> "OK"]
              ELSE cake_change(InitDefaults, opt))

(* ------------------------------------------------------------------ *)
(* cake_overhead, cake_hash, classification, cake_drop, cake_enqueue   *)
(* ------------------------------------------------------------------ *)
\* "u32 out = in + q->rate_overhead" and the ATM cell arithmetic, all in u32:
\* the s16 overhead is sign-extended and the sum wraps at 2^32
cake_overhead(q, in) ==
    LET out == U32Add(ToU32(in), U32OfS16(q.rate_overhead))
    IN  IF "ATM" \in q.rate_flags
        THEN U32MulSmall(U32DivSmall(U32Add(out, ToU32(47)), 48), 53)
        ELSE out

\* the u32 len of lines 634-645 as an integer (the lengths that stay below 2^31)
ChargedLen(q, in) == U32ToInt(cake_overhead(q, in))

\* cake_hash: 0 in flow mode NONE, else the reduced hash of the packet's headers
\* (skb.fl stands for reciprocal_scale(flow_hash, flows_cnt))
cake_hash(skb, flow_mode) == IF flow_mode = CAKE_FLOW_NONE THEN 0 ELSE skb.fl

\* cake_handle_diffserv: the DSCP of an IP packet, 0 for others
cake_handle_diffserv(skb) == IF skb.ip THEN skb.dscp ELSE 0

\* the packet after cake_handle_diffserv(skb, wash) / cake_wash_diffserv(skb):
\* the DSCP bits cleared, the ECN bits kept
WashPacket(skb, wash, besteffort) ==
    IF wash /\ skb.ip /\ (besteffort \/ skb.dscp # 0)
    THEN [skb EXCEPT !.dscp = 0] ELSE skb

\* lines 405-414 of cake_enqueue: the tin a packet is classified to
ClassifyTin(q, skb) ==
    IF q.tin_mode # CAKE_MODE_BESTEFFORT
    THEN LET tin == q.tin_index[cake_handle_diffserv(skb)]
         IN  IF tin >= q.tin_cnt THEN 0 ELSE tin
    ELSE 0

\* the flows cake_drop visits, in its order: per tin old_flows, then new_flows
RECURSIVE DropScanOrder(_, _)
DropScanOrder(q, j) ==
    IF j >= q.tin_cnt THEN <<>>
    ELSE [i \in 1 .. (Len(q.tins[j].old_flows) + Len(q.tins[j].new_flows)) |->
            IF i <= Len(q.tins[j].old_flows)
            THEN <<j, q.tins[j].old_flows[i]>>
            ELSE <<j, q.tins[j].new_flows[i - Len(q.tins[j].old_flows)]>>]
         \o DropScanOrder(q, j + 1)

\* the scan of lines 313-333: the first flow of strictly largest backlog
RECURSIVE FattestFlow(_, _, _, _)
FattestFlow(q, order, k, best) ==
    IF k > Len(order) THEN best
    ELSE LET j == order[k][1]
             i == order[k][2]
             bl == q.tins[j].backlogs[i]
         IN  IF bl > best.maxbacklog
             THEN FattestFlow(q, order, k + 1, [maxbacklog |-> bl, idx |-> i, tin |-> j])
             ELSE FattestFlow(q, order, k + 1, best)

\* lines 335-352: drop the head of flow v.idx of tin v.tin.  If that FIFO is
\* empty dequeue_head dereferences a null head (oops).
DropHeadOf(q, v) ==
    LET b == q.tins[v.tin]
        flow == b.flows[v.idx]
        skb == Head(flow.head)
    IN  IF flow.head = <<>>
        THEN [q |-> [q EXCEPT !.oops = TRUE], idx |-> v.idx, tin |-> v.tin, skb |-> <<>>]
        ELSE [q |-> [q EXCEPT !.tins[v.tin].flows[v.idx].head = Tail(@),
                              !.tins[v.tin].flows[v.idx].dropped = @ + 1,
                              !.tins[v.tin].backlogs[v.idx] = @ - skb.len,
                              !.tins[v.tin].tin_backlog = @ - skb.len,
                              !.tins[v.tin].tin_dropped = @ + 1,
                              !.buffer_used = @ - skb.truesize,
                              !.backlog = @ - skb.len,
                              !.drops = @ + 1,
                              !.qlen = @ - 1],
              idx |-> v.idx, tin |-> v.tin, skb |-> <<skb>>]

\* cake_drop: the engine after the call, the flow it dropped from and the
\* packet.  With no backlogged flow on any list the scan leaves tin 0 / flow 0.
cake_drop(q) ==
    DropHeadOf(q, FattestFlow(q, DropScanOrder(q, 0), 1,
                              [maxbacklog |-> 0, idx |-> 0, tin |-> 0]))

\* the packets dropped so far and the one cake_drop returned in r
DroppedAfter(dropped, r) == [q |-> r.q, dropped |-> dropped \o r.skb]

\* a loop that drops one packet at most
DropOnceOver(q, dropped) ==
    IF q.oops \/ ~U32Lt(q.buffer_limit, ToU32(q.buffer_used))
    THEN [q |-> q, dropped |-> dropped]
    ELSE DroppedAfter(dropped, cake_drop(q))

\* "while (q->buffer_used > q->buffer_limit) { dropped++; cake_drop(sch); }"
RECURSIVE DropWhileOver(_, _)
RECURSIVE DropWhileOverNext(_)
DropWhileOver(q, dropped) ==
    IF q.oops \/ ~U32Lt(q.buffer_limit, ToU32(q.buffer_used))
    THEN [q |-> q, dropped |-> dropped]
    ELSE DropWhileOverNext(DroppedAfter(dropped, cake_drop(q)))

DropWhileOverNext(d) == DropWhileOver(d.q, d.dropped)

\* a head insertion
flow_queue_add_head(flow, skb) == [flow EXCEPT !.head = <<skb>> \o @]

\* flow_queue_add
flow_queue_add(flow, skb) == [flow EXCEPT !.head = Append(@, skb)]

\* the segments skb_gso_segment makes of a GSO packet: skb.gso packets of the
\* packet's segment length, numbered from the packet's id
GsoSegments(skb) ==
    [k \in 1 .. skb.gso |-> [skb EXCEPT !.id = skb.id + k - 1, !.gso = 0]]

\* the per-packet part of cake_enqueue (lines 448-456 and 468-478)
RECURSIVE QueuePackets(_, _, _, _, _)
QueuePackets(q, tin, idx, pkts, now) ==
    IF pkts = <<>> THEN q
    ELSE LET \* home: the flow the packet was queued on (history, not program state)
             skb == [Head(pkts) EXCEPT !.enqueue_time = now, !.home = <<tin, idx>>]
             b == q.tins[tin]
             b1 == [b EXCEPT !.flows[idx] = flow_queue_add(@, skb),
                             !.packets = @ + 1,
                             !.bytes = @ + skb.len,
                             !.backlogs[idx] = @ + skb.len,
                             !.tin_backlog = @ + skb.len]
         IN  QueuePackets([q EXCEPT !.tins[tin] = b1,
                                    !.qlen = @ + 1,
                                    !.backlog = @ + skb.len,
                                    !.buffer_used = @ + skb.truesize],
                          tin, idx, Tail(pkts), now)

\* shaper state left as it is
RefreshShaperNever(q, tin, now) == q

\* shaper state set to the clock whether stale or not
RefreshShaperToNow(q, tin, now) ==
    [q EXCEPT !.tins[tin].tin_time_next_packet =
                  IF q.tins[tin].tin_backlog = 0 THEN now ELSE @,
              !.time_next_packet =
                  IF q.tins[tin].tin_backlog = 0 /\ q.qlen = 0 THEN now ELSE @]

\* lines 422-430: ensure shaper state isn't stale
RefreshShaper(q, tin, now) ==
    [q EXCEPT !.tins[tin].tin_time_next_packet =
                  IF q.tins[tin].tin_backlog = 0 /\ @ < now THEN now ELSE @,
              !.time_next_packet =
                  IF q.tins[tin].tin_backlog = 0 /\ q.qlen = 0 /\ @ < now THEN now ELSE @]

\* a flow that is on no list joins new_flows with the deficit it has
JoinNewFlowsOldDeficit(q, tin, idx) ==
    IF list_empty_flowchain(q.tins[tin], idx)
    THEN [q EXCEPT !.tins[tin].new_flows = Append(@, idx),
                   !.tins[tin].flows[idx].dropped = 0]
    ELSE q

\* a flow joins new_flows whether or not it is on a list already
JoinNewFlowsAlways(q, tin, idx) ==
    [q EXCEPT !.tins[tin].new_flows = Append(@, idx),
              !.tins[tin].flows[idx].deficit = q.tins[tin].quantum,
              !.tins[tin].flows[idx].dropped = 0]

\* a flow that is on no list stays on none
JoinNewFlowsNever(q, tin, idx) == q

\* lines 481-486: a flow that is on no list joins new_flows with a fresh deficit
JoinNewFlows(q, tin, idx) ==
    IF list_empty_flowchain(q.tins[tin], idx)
    THEN [q EXCEPT !.tins[tin].new_flows = Append(@, idx),
                   !.tins[tin].flows[idx].deficit = q.tins[tin].quantum,
                   !.tins[tin].flows[idx].dropped = 0]
    ELSE q

\* lines 488-498, r being the outcome of the overflow loop
EnqueueDone(r, tin, idx, pkts) ==
    [q |-> [r.q EXCEPT !.tins[tin].drop_overlimit = @ + Len(r.dropped)],
     ret |-> "NET_XMIT_SUCCESS", tin |-> tin, idx |-> idx,
     dropped |-> r.dropped, accepted |-> pkts]

\* lines 436-498 for the packets pkts that the call queues
EnqueuePackets(q, tin, idx, pkts, now) ==
    EnqueueDone(DropWhileOver(JoinNewFlows(QueuePackets(q, tin, idx, pkts, now),
                                           tin, idx),
                              <<>>),
                tin, idx, pkts)

\* lines 416-498 for the washed packet skb, classified to tin
EnqueueClassified(q, skb, tin, now, segs_ok) ==
    IF skb.gso > 0 /\ ~segs_ok
    THEN [q |-> [RefreshShaper(q, tin, now) EXCEPT !.drops = @ + 1],
          ret |-> "NET_XMIT_DROP", tin |-> tin, idx |-> cake_hash(skb, q.flow_mode),
          dropped |-> <<>>, accepted |-> <<>>]
    ELSE EnqueuePackets(RefreshShaper(q, tin, now), tin, cake_hash(skb, q.flow_mode),
                        IF skb.gso > 0 THEN GsoSegments(skb) ELSE <<skb>>, now)

\* cake_enqueue; segs_ok tells whether skb_gso_segment succeeds on a GSO packet.
\* The result names the engine, the return code, the tin and flow chosen, the
\* packets dropped for memory pressure and the packets queued.
cake_enqueue(q, skb0, now, segs_ok) ==
    EnqueueClassified(q,
                      WashPacket(skb0, "WASH" \in q.rate_flags,
                                 q.tin_mode = CAKE_MODE_BESTEFFORT),
                      ClassifyTin(q, skb0), now, segs_ok)

(* ------------------------------------------------------------------ *)
(* The CoDel primitive (codel5.h), from its contract                   *)
(* ------------------------------------------------------------------ *)
RECURSIVE IsqrtFrom(_, _)
IsqrtFrom(n, r) == IF (r + 1) * (r + 1) > n THEN r ELSE IsqrtFrom(n, r + 1)
\* drop_next = t + interval / sqrt(count)
codel_control_law(t, interval, count) == t + (interval \div Max(1, IsqrtFrom(count, 0)))

\* the reported backlog (sch->qstats.backlog) is handled by the primitive for a
\* packet that custom_dequeue has taken (r)
CodelCount(r) ==
    IF r.skb = <<>> THEN r
    ELSE [q |-> [r.q EXCEPT !.backlog = @ - r.skb[1].len], skb |-> r.skb]

\* pop the head of the flow under the cursor through custom_dequeue
CodelPop(q) == CodelCount(custom_dequeue(q))

\* ok_to_drop for the packet just popped, and the flow's first_above_time
codel_should_drop(vars, skb, p, now, overloaded) ==
    IF skb = <<>> THEN [vars |-> [vars EXCEPT !.first_above_time = 0], ok |-> FALSE]
    ELSE IF now - skb[1].enqueue_time <= p.target
    THEN [vars |-> [vars EXCEPT !.first_above_time = 0], ok |-> FALSE]
    ELSE IF vars.first_above_time = 0
    THEN [vars |-> [vars EXCEPT !.first_above_time = now + p.interval], ok |-> overloaded]
    ELSE [vars |-> vars, ok |-> overloaded \/ now >= vars.first_above_time]

CursorVars(q) == q.tins[q.cur_tin].flows[q.cur_flow].cvars
SetCursorVars(q, vars) == [q EXCEPT !.tins[q.cur_tin].flows[q.cur_flow].cvars = vars]

\* the verdict sd of codel_should_drop stored for the packet popped in r
CodelJudged(r, sd) == [q |-> SetCursorVars(r.q, sd.vars), skb |-> r.skb, ok |-> sd.ok]

\* codel_should_drop for the packet popped in r
CodelJudge(r, p, now, overloaded) ==
    CodelJudged(r, codel_should_drop(CursorVars(r.q), r.skb, p, now, overloaded))

\* the packet in hand is dropped: freed, counted in qstats.drops and drop_count
CodelDropCounted(q) ==
    [q EXCEPT !.drops = @ + 1,
              !.tins[q.cur_tin].flows[q.cur_flow].cvars.drop_count = @ + 1]

\* drop the packet, pop the next one and decide ok_to_drop for it
CodelDropAndPop(q, p, now, overloaded) ==
    CodelJudge(CodelPop(CodelDropCounted(q)), p, now, overloaded)

\* step 4 of the contract: in dropping state, while it is time for the next drop
RECURSIVE CodelDropLoop(_, _, _, _, _)
RECURSIVE CodelDropLoopNext(_, _, _, _)
CodelDropLoop(q, skb, p, now, overloaded) ==
    LET v == CursorVars(q)
    IN  IF ~(v.dropping /\ now >= v.drop_next) \/ skb = <<>>
        THEN [q |-> q, skb |-> skb]
        ELSE IF skb[1].ect
        THEN [q |-> SetCursorVars(q,
                       [v EXCEPT !.count = @ + 1,
                                 !.ecn_mark = @ + 1,
                                 !.drop_next = codel_control_law(
                                     v.drop_next, p.interval, v.count + 1)]),
              skb |-> <<[skb[1] EXCEPT !.ce = TRUE]>>]
        ELSE CodelDropLoopNext(
                 CodelDropAndPop(SetCursorVars(q, [v EXCEPT !.count = @ + 1]),
                                 p, now, overloaded),
                 p, now, overloaded)

\* d is the outcome of the drop: schedule the next drop or leave dropping state
CodelDropLoopNext(d, p, now, overloaded) ==
    LET v2 == CursorVars(d.q)
    IN  CodelDropLoop(
            SetCursorVars(d.q,
                IF d.ok
                THEN [v2 EXCEPT !.drop_next = codel_control_law(
                                    v2.drop_next, p.interval, v2.count)]
                ELSE [v2 EXCEPT !.dropping = FALSE]),
            d.skb, p, now, overloaded)

\* step 5 of the contract: enter dropping state after the first mark or drop (m)
CodelEnterDropping(m, p, now) ==
    LET v1 == CursorVars(m.q)
        delta == v1.count - v1.lastcount
        cnt == IF delta > 1 /\ now - v1.drop_next < 16 * p.interval
               THEN delta ELSE 1
    IN  [q |-> SetCursorVars(m.q,
                  [v1 EXCEPT !.dropping = TRUE, !.count = cnt,
                             !.lastcount = cnt,
                             !.drop_next = codel_control_law(now, p.interval, cnt)]),
         skb |-> m.skb]

\* mark an ECN-capable packet, drop any other and pop the next
CodelMarkOrDrop(j, p, now, overloaded) ==
    IF j.skb[1].ect
    THEN [q |-> [j.q EXCEPT !.tins[j.q.cur_tin].flows[j.q.cur_flow].cvars.ecn_mark = @ + 1],
          skb |-> <<[j.skb[1] EXCEPT !.ce = TRUE]>>]
    ELSE CodelDropAndPop(j.q, p, now, overloaded)

\* the decision for a first packet whose verdict is j
CodelDecide(j, p, now, overloaded) ==
    IF CursorVars(j.q).dropping
    THEN IF ~j.ok
         THEN [q |-> [j.q EXCEPT
                        !.tins[j.q.cur_tin].flows[j.q.cur_flow].cvars.dropping = FALSE],
               skb |-> j.skb]
         ELSE CodelDropLoop(j.q, j.skb, p, now, overloaded)
    ELSE IF j.ok
    THEN CodelEnterDropping(CodelMarkOrDrop(j, p, now, overloaded), p, now)
    ELSE [q |-> j.q, skb |-> j.skb]

\* r is the first pop: an empty flow leaves dropping state and yields none
CodelFirst(r, p, now, overloaded) ==
    IF r.skb = <<>>
    THEN [q |-> [r.q EXCEPT
                   !.tins[r.q.cur_tin].flows[r.q.cur_flow].cvars.dropping = FALSE],
          skb |-> <<>>]
    ELSE CodelDecide(CodelJudge(r, p, now, overloaded), p, now, overloaded)

\* codel_dequeue(sch, &flow->cvars, &q->cparams, now, overloaded) on the flow
\* under the cursor
codel_dequeue(q, now, overloaded) == CodelFirst(CodelPop(q), q.cparams, now, overloaded)

(* ------------------------------------------------------------------ *)
(* cake_dequeue                                                        *)
(* ------------------------------------------------------------------ *)
\* "q->buffer_used > (q->buffer_limit >> 2) + (q->buffer_limit >> 1)"
Overloaded(q) ==
    U32Lt(U32Add(U32Shr1(U32Shr1(q.buffer_limit)), U32Shr1(q.buffer_limit)),
          ToU32(q.buffer_used))

\* the weights the other way round: the priority weight for a tin whose
\* tin_time_next_packet is in the future
TinCreditSwapped(b, now) ==
    IF b.tin_time_next_packet > now THEN b.tin_quantum_prio ELSE b.tin_quantum_band

\* a selection loop that credits no tin
TinCreditNone(b, now) == 0

\* lines 565-568: "this is the priority soft-shaper magic"
TinCredit(b, now) ==
    IF b.tin_time_next_packet > now THEN b.tin_quantum_band ELSE b.tin_quantum_prio

\* "while (!b->tin_backlog || b->tin_deficit <= 0)" for the tin under the cursor
TinPassedOver(q) ==
    LET b == q.tins[q.cur_tin] IN b.tin_backlog = 0 \/ b.tin_deficit <= 0

\* one turn of the tin selection loop (lines 561-575) on c = [q, fuel], if the
\* loop has not ended; fuel 0 means the loop did not end
ChooseTinStep(c, now) ==
    IF ~TinPassedOver(c.q) \/ c.fuel = 0 THEN c
    ELSE LET q == c.q
             b == q.tins[q.cur_tin]
             b1 == IF b.tin_deficit <= 0
                   THEN [b EXCEPT !.tin_deficit = @ + TinCredit(b, now)]
                   ELSE b
             nxt == IF q.cur_tin + 1 >= q.tin_cnt THEN 0 ELSE q.cur_tin + 1
         IN  [q |-> [q EXCEPT !.tins[q.cur_tin] = b1, !.cur_tin = nxt],
              fuel |-> c.fuel - 1]

\* up to n turns of the loop, by halves
RECURSIVE ChooseTinTurns(_, _, _)
ChooseTinRest(c, now, n) ==
    IF ~TinPassedOver(c.q) \/ c.fuel = 0 THEN c ELSE ChooseTinTurns(c, now, n)
ChooseTinTurns(c, now, n) ==
    IF n <= 1 THEN ChooseTinStep(c, now)
    ELSE ChooseTinRest(ChooseTinTurns(c, now, n \div 2), now, n - (n \div 2))

\* the tin selection loop (lines 561-575)
ChooseTin(q, now, fuel) == ChooseTinTurns([q |-> q, fuel |-> fuel], now, fuel)

\* a charge that reaches the serviced tin alone
ChargeTinsOwnOnly(tins, i, len) ==
    [tins EXCEPT ![i].tin_time_next_packet =
        @ + MulShr(len, tins[i].tin_rate_ns, tins[i].tin_rate_shft)]

\* lines 634-645: the charge for an emitted packet of effective length len
RECURSIVE ChargeTins(_, _, _)
ChargeTins(tins, i, len) ==
    IF i < 0 THEN tins
    ELSE ChargeTins([tins EXCEPT ![i].tin_time_next_packet =
                        @ + MulShr(len, tins[i].tin_rate_ns, tins[i].tin_rate_shft)],
                    i - 1, len)

\* lines 636-645 for the effective length len
ChargeLen(q, len) ==
    [q EXCEPT !.tins[q.cur_tin].flows[q.cur_flow].deficit = @ - len,
              !.tins[q.cur_tin].tin_deficit = @ - len,
              !.tins = ChargeTins(@, q.cur_tin, len),
              !.time_next_packet = @ + MulShr(len, q.rate_ns, q.rate_shft)]

ChargePacket(q, skb) == ChargeLen(q, ChargedLen(q, skb.len))

\* a shaper that never throttles
ShaperThrottlesNever(q, now) == FALSE
\* a shaper that also throttles at now = time_next_packet
ShaperThrottlesAtEqual(q, now) == q.time_next_packet >= now

\* "if (q->time_next_packet > now)": the global hard shaper
ShaperThrottles(q, now) == q.time_next_packet > now

\* a watchdog armed for the delay instead of the absolute time
WatchdogExpiryDelta(q, now) == q.time_next_packet - now

\* the expiry given to codel_watchdog_schedule_ns
WatchdogExpiry(q, now) == q.time_next_packet

\* The results of the parts of cake_dequeue name the engine, the packet returned
\* (none: <<>>), why none was returned, and the packets CoDel dropped; "hung"
\* stands for a loop that did not end.
RECURSIVE DequeueBegin(_, _, _, _)
RECURSIVE DequeueChosen(_, _, _, _)
RECURSIVE DequeueRetry(_, _, _, _)
RECURSIVE DequeueServed(_, _, _, _, _, _)

\* from the label "begin" (lines 548-575)
DequeueBegin(q, now, fuel, dropped) ==
    IF fuel = 0 THEN [q |-> q, skb |-> <<>>, why |-> "hung", dropped |-> dropped]
    ELSE IF q.qlen = 0
    THEN [q |-> q, skb |-> <<>>, why |-> "empty", dropped |-> dropped]
    ELSE IF ShaperThrottles(q, now)
    THEN [q |-> [q EXCEPT !.overlimits = @ + 1, !.watchdog = WatchdogExpiry(q, now)],
          skb |-> <<>>, why |-> "throttled", dropped |-> dropped]
    ELSE DequeueChosen(ChooseTin(q, now, fuel), now, fuel, dropped)

\* c is the outcome of the tin selection loop
DequeueChosen(c, now, fuel, dropped) ==
    IF c.fuel = 0
    THEN [q |-> c.q, skb |-> <<>>, why |-> "hung", dropped |-> dropped]
    ELSE DequeueRetry(c.q, now, fuel, dropped)

\* a flow that is served whatever its deficit
FlowOutOfDeficitNever(flow) == FALSE

\* "if (flow->deficit <= 0)" (line 593)
FlowOutOfDeficit(flow) == flow.deficit <= 0

\* from the label "retry" to the call of codel_dequeue (lines 577-607)
DequeueRetry(q, now, fuel, dropped) ==
    LET tin == q.cur_tin
        b == q.tins[tin]
        from_new == b.new_flows # <<>>
        head == IF from_new THEN b.new_flows ELSE b.old_flows
        idx == Head(head)
    IN  IF fuel = 0 THEN [q |-> q, skb |-> <<>>, why |-> "hung", dropped |-> dropped]
        ELSE IF head = <<>>
        THEN \* shouldn't ever happen: WARN_ON(b->tin_backlog)
             DequeueBegin([q EXCEPT !.tins[tin].tin_backlog = 0,
                                    !.warned = @ \/ (b.tin_backlog # 0)],
                          now, fuel - 1, dropped)
        ELSE IF FlowOutOfDeficit(b.flows[idx])
        THEN DequeueRetry(
                 [q EXCEPT !.cur_flow = idx,
                           !.tins[tin].flows[idx].deficit = @ + b.quantum,
                           !.tins[tin] = list_move_tail_old(@, idx),
                           !.tins[tin].bulk_flow_count =
                               IF from_new THEN U16(@ + 1) ELSE @],
                 now, fuel - 1, dropped)
        ELSE DequeueServed([q EXCEPT !.cur_flow = idx],
                           codel_dequeue([q EXCEPT !.cur_flow = idx], now,
                                         Overloaded(q)),
                           from_new, now, fuel, dropped)

\* the shaper times and deficits of engine x (history: what the charge for an
\* emitted packet started from)
PreCharge(x) ==
    [tnp |-> x.time_next_packet,
     ttnp |-> [t \in Tins |-> x.tins[t].tin_time_next_packet],
     tdef |-> [t \in Tins |-> x.tins[t].tin_deficit],
     fdef |-> [t \in Tins |-> [f \in Flows |-> x.tins[t].flows[f].deficit]]]

\* lines 634-647: the packet skb is charged to engine x and returned
DequeueCharged(x, skb, dropped) ==
    [q |-> ChargePacket(x, skb[1]), skb |-> skb, why |-> "packet",
     dropped |-> dropped, pre |-> PreCharge(x)]

\* after codel_dequeue (lines 609-647): q0 is the engine codel_dequeue was called
\* on, r what it returned, from_new tells whether head was new_flows
DequeueServed(q0, r, from_new, now, fuel, dropped) ==
    LET tin == q0.cur_tin
        idx == q0.cur_flow
        flow == q0.tins[tin].flows[idx]
        v == CursorVars(r.q)
        \* the packets CoDel dropped (history, not program state)
        lost == SubSeq(flow.head, 1,
                       Len(flow.head) - Len(r.q.tins[tin].flows[idx].head) - Len(r.skb))
        q1 == [r.q EXCEPT
                 !.tins[tin].tin_dropped = @ + (v.drop_count - flow.cvars.drop_count),
                 !.tins[tin].tin_ecn_mark = @ + (v.ecn_mark - flow.cvars.ecn_mark),
                 !.tins[tin].flows[idx].cvars.ecn_mark = 0,
                 !.tins[tin].flows[idx].dropped = @ + (v.drop_count - flow.cvars.drop_count)]
    IN  IF r.skb = <<>>
        THEN \* codel dropped the last packet in this queue; try again
             DequeueBegin(
                 IF from_new /\ r.q.tins[tin].old_flows # <<>>
                 THEN [q1 EXCEPT !.tins[tin] = list_move_tail_old(@, idx),
                                 !.tins[tin].bulk_flow_count = U16(@ + 1)]
                 ELSE [q1 EXCEPT !.tins[tin] = list_del_init(@, idx),
                                 !.tins[tin].bulk_flow_count =
                                     IF ~from_new THEN U16(@ - 1) ELSE @],
                 now, fuel - 1, dropped \o lost)
        ELSE DequeueCharged(
                 IF v.drop_count # 0 /\ r.q.qlen # 0
                 THEN [q1 EXCEPT !.tins[tin].flows[idx].cvars.drop_count = 0]
                 ELSE q1,
                 r.skb, dropped \o lost)

cake_dequeue(q, now) == DequeueBegin(q, now, LoopFuel, <<>>)

(* ------------------------------------------------------------------ *)
(* Inputs of the model                                                 *)
(* ------------------------------------------------------------------ *)
Opt(tb) == [kind |-> "ok", tb |-> tb]
OptNull == [kind |-> "null", tb |-> <<>>]
OptBad == [kind |-> "bad", tb |-> <<>>]
Attrs(a, v) == [x \in {a} |-> v]

\* the payload u of an attribute as nla_get_s32 and nla_get_u32 read it; a u32
\* beyond the s32 range is kept as the s32 of the same bits
NlaPayload(u) ==
    IF u.hi >= 32768 THEN (u.hi - 65536) * 65536 + u.lo ELSE u.hi * 65536 + u.lo
\* "!!(q->rate_flags & flag)"
FlagSet(q, name) == IF name \in q.rate_flags THEN 1 ELSE 0

\* a dump that puts the target under RTT and the interval under TARGET
cake_dump_swapped(q) ==
    Attrs("BASE_RATE", q.rate_bps) @@ Attrs("DIFFSERV_MODE", q.tin_mode)
    @@ Attrs("ATM", FlagSet(q, "ATM")) @@ Attrs("FLOW_MODE", q.flow_mode)
    @@ Attrs("WASH", FlagSet(q, "WASH"))
    @@ Attrs("OVERHEAD", NlaPayload(U32OfS16(q.rate_overhead)))
    @@ Attrs("RTT", q.target) @@ Attrs("TARGET", q.interval)
    @@ Attrs("AUTORATE", FlagSet(q, "AUTORATE_INGRESS"))
    @@ Attrs("MEMORY", NlaPayload(ToU32(q.buffer_config_limit)))

\* cake_dump (lines 1145-1190): the attributes nested under TCA_OPTIONS
cake_dump(q) ==
    Attrs("BASE_RATE", q.rate_bps) @@ Attrs("DIFFSERV_MODE", q.tin_mode)
    @@ Attrs("ATM", FlagSet(q, "ATM")) @@ Attrs("FLOW_MODE", q.flow_mode)
    @@ Attrs("WASH", FlagSet(q, "WASH"))
    @@ Attrs("OVERHEAD", NlaPayload(U32OfS16(q.rate_overhead)))
    @@ Attrs("RTT", q.interval) @@ Attrs("TARGET", q.target)
    @@ Attrs("AUTORATE", FlagSet(q, "AUTORATE_INGRESS"))
    @@ Attrs("MEMORY", NlaPayload(ToU32(q.buffer_config_limit)))

\* option blobs given to cake_init
InitOpts ==
    { OptNull,
      Opt(Attrs("BASE_RATE", 1000000000) @@ Attrs("DIFFSERV_MODE", CAKE_MODE_BESTEFFORT)
          @@ Attrs("RTT", 2) @@ Attrs("TARGET", 1)),
      Opt(Attrs("DIFFSERV_MODE", CAKE_MODE_PRECEDENCE) @@ Attrs("MEMORY", 2000)
          @@ Attrs("RTT", 2) @@ Attrs("TARGET", 1)) }

\* option blobs given to cake_change
ChangeOpts ==
    { OptNull, OptBad,
      Opt(Attrs("DIFFSERV_MODE", CAKE_MODE_BESTEFFORT)),
      Opt(Attrs("MEMORY", 1000)),
      Opt(Attrs("BASE_RATE", 750000000) @@ Attrs("DIFFSERV_MODE", CAKE_MODE_DIFFSERV4)) }

\* skb->truesize of a packet of len bytes: the data plus the skb bookkeeping
SkbOverhead == 256
TrueSize(len) == len + SkbOverhead

\* the packets offered: length (per segment for a GSO packet), IP or not, DSCP,
\* ECN-capable or not, number of GSO segments (0: not GSO)
PktKinds ==
    << [len |-> 1500, ip |-> TRUE, dscp |-> 0, ect |-> FALSE, gso |-> 0],
       [len |-> 600, ip |-> TRUE, dscp |-> 46, ect |-> TRUE, gso |-> 0],
       [len |-> 700, ip |-> FALSE, dscp |-> 0, ect |-> FALSE, gso |-> 2] >>
\* the k-th enqueue call of a run offers a packet of kind k (cyclically)
KindOf(k) == PktKinds[((k - 1) % Len(PktKinds)) + 1]

MkPacket(kind, fl, id) ==
    [id |-> id, len |-> kind.len, truesize |-> TrueSize(kind.len), ip |-> kind.ip,
     dscp |-> kind.dscp, ect |-> kind.ect, ce |-> FALSE, gso |-> kind.gso,
     fl |-> fl, enqueue_time |-> 0, home |-> <<0, 0>>]

\* the clock advances by these amounts (ns)
TickSteps == {2000}

(* ------------------------------------------------------------------ *)
(* State                                                               *)
(* ------------------------------------------------------------------ *)
VARIABLES
    q,        \* struct cake_sched_data and the Qdisc fields it uses
    now,      \* the monotonic clock (ns)
    last,     \* the last operation and what it returned
    hist,     \* history: counts of packets offered, accepted, transmitted; the
              \* emission log; the last packet id emitted per flow; the time
              \* and log length at the last enqueue into an empty engine
    sh        \* after cake_reset: a freshly initialised engine of the same
              \* configuration given the same operations, and whether its
              \* outputs have differed

vars == <<q, now, last, hist, sh>>

NoPkt == <<>>
LastInit ==
    [op |-> "init", ret |-> "OK", skb |-> NoPkt, why |-> "", dropped |-> <<>>,
     tin |-> 0, idx |-> 0, qlen0 |-> 0, tnp0 |-> 0, wd0 |-> 0, prev_id |-> 0,
     ttnp0 |-> 0, arg |-> "", fifo0 |-> 0, listed0 |-> FALSE,
     band |-> FALSE, pre |-> <<>>, fcred |-> FALSE, opt |-> <<>>, par0 |-> <<>>,
     old0 |-> <<>>, cur0 |-> <<>>]

\* the credit tin t was given in a dequeue call that took the engine from q0
\* to q1 and returned skb: the growth of its deficit, the charge for the
\* returned packet put back
TinCreditGiven(q0, q1, skb, t) ==
    q1.tins[t].tin_deficit - q0.tins[t].tin_deficit
        + (IF skb # NoPkt /\ t = q1.cur_tin THEN ChargedLen(q0, skb[1].len) ELSE 0)

\* the same for flow f of tin t
FlowCreditGiven(q0, q1, skb, t, f) ==
    q1.tins[t].flows[f].deficit - q0.tins[t].flows[f].deficit
        + (IF skb # NoPkt /\ t = q1.cur_tin /\ f = q1.cur_flow
           THEN ChargedLen(q0, skb[1].len) ELSE 0)

HistInit ==
    [enqs |-> 0, offered |-> 0, accepted |-> 0, transmitted |-> 0, ticks |-> 0, changes |-> 0,
     resets |-> 0, deqs |-> 0, drop_calls |-> 0, log |-> <<>>, last_out |-> [t \in Tins |-> [f \in Flows |-> 0]],
     ever_rated |-> FALSE, idle |-> [on |-> FALSE, t |-> 0, n |-> 0]]

NoShadow == [on |-> FALSE]

Init ==
    /\ \E opt \in InitOpts : q = cake_init(opt).q
    /\ now = 0
    /\ last = LastInit
    /\ hist = [HistInit EXCEPT !.ever_rated = (q.rate_bps # 0)]
    /\ sh = NoShadow

\* a freshly initialised engine with the configuration of e
FreshLike(e) ==
    cake_reconfigure([ZeroSched EXCEPT
        !.have_tins = TRUE, !.limit = e.limit, !.tin_mode = e.tin_mode,
        !.flow_mode = e.flow_mode, !.rate_bps = e.rate_bps, !.interval = e.interval,
        !.target = e.target, !.rate_flags = e.rate_flags,
        !.rate_overhead = e.rate_overhead,
        !.buffer_config_limit = e.buffer_config_limit])

Ids(pkts) == [i \in 1 .. Len(pkts) |-> pkts[i].id]

\* the shadow engine after the same operation; out/out2 are the outputs of the
\* engine and of the shadow
ShadowStep(q2, out, out2) ==
    IF sh.on THEN [on |-> TRUE, q |-> q2, diverged |-> sh.diverged \/ out # out2]
    ELSE NoShadow

Steps == hist.enqs + hist.deqs + hist.drop_calls + hist.ticks + hist.changes
         + hist.resets
Alive == ~q.oops /\ Steps < MaxSteps

(* ------------------------------------------------------------------ *)
(* Actions                                                             *)
(* ------------------------------------------------------------------ *)
\* one call of cake_enqueue, with what the history keeps of it
EnqueueCall(skb, segs_ok) ==
    /\ \E r \in {cake_enqueue(q, skb, now, segs_ok)} :
       \E r2 \in {IF sh.on THEN cake_enqueue(sh.q, skb, now, segs_ok) ELSE r} :
           /\ q' = r.q
           /\ last' = [LastInit EXCEPT !.op = "enqueue", !.ret = r.ret,
                                       !.dropped = r.dropped, !.tin = r.tin,
                                       !.idx = r.idx, !.qlen0 = q.qlen,
                                       !.tnp0 = q.time_next_packet,
                                       !.ttnp0 =
                                           q.tins[r.tin].tin_time_next_packet,
                                       !.fifo0 =
                                           Len(q.tins[r.tin].flows[r.idx].head),
                                       !.listed0 =
                                           ~list_empty_flowchain(q.tins[r.tin],
                                                                 r.idx)]
           /\ hist' = [hist EXCEPT !.enqs = @ + 1,
                                   !.offered = @ + Max(1, skb.gso),
                                   !.accepted = @ + Len(r.accepted),
                                   !.idle = IF q.qlen = 0
                                            THEN [on |-> TRUE, t |-> now,
                                                  n |-> Len(hist.log)]
                                            ELSE @]
           /\ sh' = ShadowStep(r2.q, <<r.ret, Ids(r.dropped)>>,
                                <<r2.ret, Ids(r2.dropped)>>)
    /\ UNCHANGED now

Enqueue ==
    /\ Alive
    /\ hist.enqs < MaxPkts
    /\ \E fl \in Flows, segs_ok \in BOOLEAN :
         /\ (KindOf(hist.enqs + 1).gso = 0 => segs_ok)
         /\ EnqueueCall(MkPacket(KindOf(hist.enqs + 1), fl, hist.offered + 1),
                        segs_ok)

\* one call of cake_dequeue, with what the history keeps of it
DequeueCall ==
    /\ \E r \in {cake_dequeue(q, now)} :
       \E r2 \in {IF sh.on THEN cake_dequeue(sh.q, now) ELSE r} :
       LET emitted == r.skb # NoPkt
           tin == r.q.cur_tin
           idx == r.q.cur_flow
       IN  /\ q' = r.q
           /\ last' = [LastInit EXCEPT
                         !.op = "dequeue", !.skb = r.skb, !.why = r.why,
                         !.dropped = r.dropped, !.tin = tin, !.idx = idx,
                         !.qlen0 = q.qlen, !.tnp0 = q.time_next_packet,
                         !.wd0 = q.watchdog,
                         !.prev_id = IF emitted THEN hist.last_out[tin][idx] ELSE 0,
                         !.pre = IF emitted THEN r.pre ELSE <<>>,
                         !.old0 = [t \in Tins |-> q.tins[t].old_flows],
                         !.cur0 = <<q.cur_tin, q.cur_flow>>,
                         !.fcred = \E t \in Tins, f \in Flows :
                                      FlowCreditGiven(q, r.q, r.skb, t, f) > 0,
                         !.band = \E t \in Tins :
                                     /\ TinCreditGiven(q, r.q, r.skb, t) > 0
                                     /\ q.tins[t].tin_time_next_packet > now]
           /\ hist' = IF emitted
                      THEN [hist EXCEPT
                              !.deqs = @ + 1,
                              !.transmitted = @ + 1,
                              !.last_out[tin][idx] = r.skb[1].id,
                              !.log = Append(@,
                                  [t |-> now, id |-> r.skb[1].id,
                                   len |-> ChargedLen(q, r.skb[1].len),
                                   tx |-> r.q.time_next_packet - q.time_next_packet,
                                   tnp0 |-> q.time_next_packet,
                                   rate |-> q.rate_bps,
                                   tin |-> tin, idx |-> idx,
                                   quantum |-> q.tins[tin].quantum,
                                   both |-> \A f \in Flows :
                                       /\ q.tins[tin].backlogs[f] > 0
                                       /\ r.q.tins[tin].backlogs[f] > 0])]
                      ELSE IF r.why = "empty" THEN hist
                      ELSE [hist EXCEPT !.deqs = @ + 1]
           /\ sh' = ShadowStep(r2.q, <<Ids(r.skb), r.why, Ids(r.dropped)>>,
                                <<Ids(r2.skb), r2.why, Ids(r2.dropped)>>)
    /\ UNCHANGED now

Dequeue ==
    /\ Alive
    /\ hist.deqs < MaxDeq
    /\ DequeueCall

\* one call of cake_drop, with what the history keeps of it
DropCall ==
    /\ \E r \in {cake_drop(q)} :
       \E r2 \in {IF sh.on THEN cake_drop(sh.q) ELSE r} :
           /\ q' = r.q
           /\ last' = [LastInit EXCEPT !.op = "drop", !.dropped = r.skb,
                                       !.tin = r.tin, !.idx = r.idx,
                                       !.ret = IF r.q.oops THEN "oops" ELSE "OK",
                                       !.qlen0 = q.qlen, !.tnp0 = q.time_next_packet]
           /\ sh' = ShadowStep(r2.q, <<Ids(r.skb), r.q.oops>>, <<Ids(r2.skb), r2.q.oops>>)
           /\ hist' = [hist EXCEPT !.drop_calls = @ + 1]
    /\ UNCHANGED now

Drop ==
    /\ Alive
    /\ hist.drop_calls < MaxDrops
    /\ DropCall

\* one call of cake_reset, with what the history keeps of it
ResetCall ==
    /\ q' = cake_reset(q)
    /\ last' = [LastInit EXCEPT !.op = "reset", !.qlen0 = q.qlen,
                                !.tnp0 = q.time_next_packet]
    /\ hist' = [hist EXCEPT !.resets = @ + 1]
    /\ sh' = [on |-> TRUE, q |-> FreshLike(q), diverged |-> FALSE]
    /\ UNCHANGED now

Reset ==
    /\ Alive
    /\ hist.resets < MaxResets
    /\ ResetCall

\* one call of cake_change with the option blob opt, with what the history
\* keeps of it
ChangeCall(opt) ==
    /\ \E r \in {cake_change(q, opt)} :
             /\ q' = r.q
             /\ last' = [LastInit EXCEPT !.op = "change", !.ret = r.err,
                                         !.arg = opt.kind, !.opt = opt,
                                         !.qlen0 = q.qlen, !.tnp0 = q.time_next_packet]
             /\ hist' = IF r.err # "OK" THEN hist
                        ELSE [hist EXCEPT !.changes = @ + 1,
                                          !.ever_rated = @ \/ r.q.rate_bps # 0]
             /\ sh' = IF sh.on
                      THEN [sh EXCEPT !.q = cake_change(sh.q, opt).q]
                      ELSE NoShadow
    /\ UNCHANGED now

Change ==
    /\ Alive
    /\ hist.changes < MaxChanges
    /\ \E opt \in ChangeOpts : ChangeCall(opt)

Tick ==
    /\ Alive
    /\ hist.ticks < MaxTicks
    /\ \E d \in TickSteps : now' = now + d
    /\ hist' = [hist EXCEPT !.ticks = @ + 1]
    /\ last' = [LastInit EXCEPT !.op = "tick"]
    /\ UNCHANGED <<q, sh>>

Next == Enqueue \/ Dequeue \/ Drop \/ Reset \/ Change \/ Tick

Spec == Init /\ [][Next]_vars

(* ------------------------------------------------------------------ *)
(* The round robin of one tin: an unshaped best-effort engine, two      *)
(* flows, packets longer and shorter than the quantum                   *)
(* ------------------------------------------------------------------ *)
\* the lengths of the packets offered
DrrLens == {3000, 100}
DrrMaxLen == 3000
DrrOpt == Opt(Attrs("DIFFSERV_MODE", CAKE_MODE_BESTEFFORT))
DrrKind(len) == [len |-> len, ip |-> TRUE, dscp |-> 0, ect |-> FALSE, gso |-> 0]

DrrInit ==
    /\ q = cake_init(DrrOpt).q
    /\ now = 0
    /\ last = LastInit
    /\ hist = HistInit
    /\ sh = NoShadow

DrrEnqueue ==
    /\ hist.enqs < MaxDrrPkts
    /\ \E fl \in Flows, len \in DrrLens :
         EnqueueCall(MkPacket(DrrKind(len), fl, hist.offered + 1), TRUE)

DrrDequeue ==
    /\ hist.deqs < MaxDrrDeq
    /\ q.qlen > 0
    /\ DequeueCall

DrrNext == DrrEnqueue \/ DrrDequeue

SpecDrr == DrrInit /\ [][DrrNext]_vars

(* ------------------------------------------------------------------ *)
(* The round robin under every operation: the engine and the packets   *)
(* of the round-robin specification, with drop, reset and              *)
(* reconfiguration between the enqueue and dequeue calls               *)
(* ------------------------------------------------------------------ *)
BulkOpts ==
    { Opt(Attrs("DIFFSERV_MODE", CAKE_MODE_BESTEFFORT)),
      Opt(Attrs("DIFFSERV_MODE", CAKE_MODE_DIFFSERV4)) }

BulkInit ==
    /\ \E opt \in BulkOpts : q = cake_init(opt).q
    /\ now = 0
    /\ last = LastInit
    /\ hist = HistInit
    /\ sh = NoShadow

BulkAlive == ~q.oops /\ Steps < MaxBulkSteps

BulkEnqueue ==
    /\ BulkAlive
    /\ hist.enqs < MaxBulkPkts
    /\ \E fl \in Flows, len \in DrrLens :
         EnqueueCall(MkPacket(DrrKind(len), fl, hist.offered + 1), TRUE)

BulkDequeue ==
    /\ BulkAlive
    /\ q.qlen > 0
    /\ DequeueCall

BulkDrop ==
    /\ BulkAlive
    /\ hist.drop_calls < MaxDrops
    /\ q.qlen > 0
    /\ DropCall

BulkReset ==
    /\ BulkAlive
    /\ hist.resets < MaxResets
    /\ ResetCall

BulkChange ==
    /\ BulkAlive
    /\ hist.changes < MaxChanges
    /\ \E opt \in BulkOpts : ChangeCall(opt)

BulkNext == BulkEnqueue \/ BulkDequeue \/ BulkDrop \/ BulkReset \/ BulkChange

SpecBulk == BulkInit /\ [][BulkNext]_vars

(* ------------------------------------------------------------------ *)
(* Service of the tins: every diffserv mode, a finite offered load,     *)
(* dequeue called for as long as packets are queued                     *)
(* ------------------------------------------------------------------ *)
LiveOpts ==
    { Opt(Attrs("DIFFSERV_MODE", CAKE_MODE_BESTEFFORT)),
      Opt(Attrs("DIFFSERV_MODE", CAKE_MODE_PRECEDENCE)),
      Opt(Attrs("DIFFSERV_MODE", CAKE_MODE_DIFFSERV8)),
      Opt(Attrs("BASE_RATE", 750000000) @@ Attrs("DIFFSERV_MODE", CAKE_MODE_DIFFSERV4)) }

LiveInit ==
    /\ \E opt \in LiveOpts : q = cake_init(opt).q
    /\ now = 0
    /\ last = LastInit
    /\ hist = HistInit
    /\ sh = NoShadow

\* a best-effort packet or an expedited one
LiveEnqueue ==
    /\ hist.enqs < MaxLivePkts
    /\ \E k \in 1 .. 2 :
         EnqueueCall(MkPacket(PktKinds[k], 0, hist.offered + 1), TRUE)

\* the stack calls dequeue while packets are queued; after a throttled call it
\* waits for the watchdog armed by that call
LiveDequeueReady ==
    /\ q.qlen > 0
    /\ ShaperThrottles(q, now) => q.watchdog # q.time_next_packet

LiveDequeue == LiveDequeueReady /\ DequeueCall

\* the clock advances towards the time the shaper waits for
LiveTick ==
    /\ q.qlen > 0
    /\ ShaperThrottles(q, now)
    /\ \E d \in TickSteps : now' = now + d
    /\ last' = [LastInit EXCEPT !.op = "tick"]
    /\ UNCHANGED <<q, hist, sh>>

LiveNext == LiveEnqueue \/ LiveDequeue \/ LiveTick

\* dequeue keeps being called and time keeps advancing: weak fairness of
\* LiveTick and of LiveDequeue, the latter written out with the guard
\* LiveDequeueReady for its enabling condition
SpecLive ==
    /\ LiveInit /\ [][LiveNext]_vars
    /\ WF_vars(LiveTick)
    /\ ([]<>(~LiveDequeueReady) \/ []<><<LiveDequeue>>_vars)

(* ------------------------------------------------------------------ *)
(* Configuration alone: changes, and dumps fed back through change      *)
(* ------------------------------------------------------------------ *)
\* the externally observable parameters of engine e
Params(e) ==
    [rate_bps |-> e.rate_bps, tin_mode |-> e.tin_mode, rate_flags |-> e.rate_flags,
     flow_mode |-> e.flow_mode, rate_overhead |-> e.rate_overhead,
     interval |-> e.interval, target |-> e.target,
     buffer_config_limit |-> e.buffer_config_limit]

\* option blobs given to cake_change
CfgOpts ==
    { OptNull,
      Opt(Attrs("OVERHEAD", -4) @@ Attrs("ATM", 1) @@ Attrs("RTT", 0)
          @@ Attrs("TARGET", 7)),
      Opt(Attrs("OVERHEAD", 40) @@ Attrs("WASH", 1) @@ Attrs("AUTORATE", 1)
          @@ Attrs("FLOW_MODE", CAKE_FLOW_NONE)),
      Opt(Attrs("BASE_RATE", 750000000) @@ Attrs("DIFFSERV_MODE", CAKE_MODE_DIFFSERV4)
          @@ Attrs("MEMORY", 1000)),
      Opt(Attrs("ATM", 0) @@ Attrs("WASH", 0) @@ Attrs("AUTORATE", 2)
          @@ Attrs("RTT", 50) @@ Attrs("TARGET", 0)),
      Opt(Attrs("BASE_RATE", 0) @@ Attrs("DIFFSERV_MODE", CAKE_MODE_PRECEDENCE)
          @@ Attrs("OVERHEAD", -32768) @@ Attrs("FLOW_MODE", CAKE_FLOW_FLOWS)) }

\* cake_change with option blob opt
CfgApply(op, opt) ==
    /\ hist.changes < MaxCfgOps
    /\ \E r \in {cake_change(q, opt)} :
           /\ q' = r.q
           /\ last' = [LastInit EXCEPT !.op = op, !.ret = r.err, !.arg = opt.kind,
                                       !.opt = opt, !.par0 = Params(q)]
    /\ hist' = [hist EXCEPT !.changes = @ + 1]
    /\ UNCHANGED <<now, sh>>

CfgChange == \E opt \in CfgOpts : CfgApply("change", opt)

\* cake_dump, and the dumped attributes given to cake_change
CfgDumpChange == CfgApply("dumpchange", Opt(cake_dump(q)))

CfgNext == CfgChange \/ CfgDumpChange

SpecCfg == Init /\ [][CfgNext]_vars

(* ------------------------------------------------------------------ *)
(* The effective length of a packet, over lengths and overheads        *)
(* ------------------------------------------------------------------ *)
\* rate_overhead values (an s16) and qdisc_pkt_len values
OvhOverheads == {0, 4, 40, 32767, -4, -30, -64, -1500, -32768}
OvhLens == {14, 40, 60, 64, 100, 576, 1500, 9000, 65535}
OvhOpts ==
    {Opt(Attrs("OVERHEAD", o) @@ Attrs("ATM", a)) :
        o \in OvhOverheads, a \in {0, 1}}

OvhInit ==
    /\ \E opt \in OvhOpts : q = cake_init(opt).q
    /\ now = 0
    /\ last = LastInit
    /\ hist = HistInit
    /\ sh = NoShadow

\* "len = cake_overhead(q, qdisc_pkt_len(skb))" for a packet of L bytes
OvhCharge ==
    /\ \E L \in OvhLens :
          last' = [LastInit EXCEPT !.op = "overhead", !.arg = L,
                                   !.par0 = cake_overhead(q, L)]
    /\ UNCHANGED <<q, now, hist, sh>>

OvhNext == OvhCharge

SpecOvh == OvhInit /\ [][OvhNext]_vars

(* ------------------------------------------------------------------ *)
(* Properties                                                          *)
(* ------------------------------------------------------------------ *)
RECURSIVE SumSeq(_)
SumSeq(xs) == IF xs = <<>> THEN 0 ELSE Head(xs) + SumSeq(Tail(xs))
\* the sum of f[i] for i in lo .. hi
RECURSIVE SumFn(_, _, _)
SumFn(f, lo, hi) == IF lo > hi THEN 0 ELSE f[lo] + SumFn(f, lo + 1, hi)

SumFlowBacklogs(t) == SumFn(q.tins[t].backlogs, 0, FlowsCnt - 1)
SumTinBacklogs == SumFn([t \in Tins |-> q.tins[t].tin_backlog], 0, CAKE_MAX_TINS - 1)
SumTinDropped == SumFn([t \in Tins |-> q.tins[t].tin_dropped], 0, CAKE_MAX_TINS - 1)
DataPathOp == last.op \in {"enqueue", "dequeue", "drop"}
EnqueueOk == last.op = "enqueue" /\ last.ret = "NET_XMIT_SUCCESS"
Emitted == last.op = "dequeue" /\ last.skb # NoPkt

\* C1: after every enqueue, dequeue and drop, the per-flow backlogs of every tin
\* sum to its tin_backlog and the tin backlogs sum to the reported backlog
\* (sch->qstats.backlog).
C1_BacklogConservation ==
    DataPathOp =>
        /\ \A t \in Tins : SumFlowBacklogs(t) = q.tins[t].tin_backlog
        /\ SumTinBacklogs = q.backlog

\* C2: packets accepted by enqueue = packets transmitted + packets counted in
\* tin_dropped + packets queued, at every point of every run.
C2_NoPacketLost ==
    hist.accepted = hist.transmitted + SumTinDropped + q.qlen

\* C3: whenever enqueue returns success, buffer_used <= buffer_limit.
C3_MemoryBound ==
    EnqueueOk => ~U32Lt(q.buffer_limit, ToU32(q.buffer_used))

\* C3 witness: an enqueue that returned success after memory-pressure drops,
\* under a buffer_limit lowered by a reconfigure to less than the truesize of
\* the packet just offered.
C3_Witness ==
    /\ EnqueueOk
    /\ last.dropped # <<>>
    /\ hist.changes > 0
    /\ \E i \in 1 .. Len(last.dropped) :
          U32Lt(q.buffer_limit, ToU32(last.dropped[i].truesize))

StrictlyIncreasing(xs) == \A i \in 1 .. (Len(xs) - 1) : xs[i] < xs[i + 1]
FlowFifo(home) == q.tins[home[1]].flows[home[2]].head
QueuedPackets ==
    SumFn([t \in Tins |-> SumFn([f \in Flows |-> Len(q.tins[t].flows[f].head)],
                                0, FlowsCnt - 1)],
          0, CAKE_MAX_TINS - 1)

\* C4: per flow subqueue, packets are emitted in the order they were enqueued
\* (packet ids grow in enqueue order): every FIFO holds its packets in enqueue
\* order, an emitted packet is newer than the packet emitted before it from
\* the same flow and older than all that remain there, and a dropped packet
\* is older than all that remain in its flow (drops take the head).
C4_FifoPerFlow ==
    /\ \A t \in Tins, f \in Flows : StrictlyIncreasing(Ids(q.tins[t].flows[f].head))
    /\ Emitted =>
         /\ last.skb[1].home = <<last.tin, last.idx>>
         /\ last.prev_id < last.skb[1].id
         /\ \A i \in 1 .. Len(FlowFifo(last.skb[1].home)) :
               last.skb[1].id < FlowFifo(last.skb[1].home)[i].id
    /\ \A d \in 1 .. Len(last.dropped) :
         \A i \in 1 .. Len(FlowFifo(last.dropped[d].home)) :
               last.dropped[d].id < FlowFifo(last.dropped[d].home)[i].id

\* C4 witness: a packet emitted from a flow that had emitted before, with a
\* packet still queued behind it.
C4_Witness ==
    /\ Emitted
    /\ last.prev_id > 0
    /\ FlowFifo(last.skb[1].home) # <<>>

\* C5 as claimed: every dequeue entered with now < time_next_packet yields no
\* packet and arms the watchdog for time_next_packet, and no packet is emitted
\* before time_next_packet.
C5_ThrottleOnEveryEntry ==
    last.op = "dequeue" =>
        /\ (now < last.tnp0 => last.skb = NoPkt /\ q.watchdog = last.tnp0)
        /\ (last.skb # NoPkt => last.tnp0 <= now)

\* C5 amended: a dequeue entered with packets queued and now < time_next_packet
\* yields no packet, arms the watchdog for the absolute time time_next_packet
\* and leaves queue and shaper as they were; a dequeue entered with an empty
\* queue yields no packet and does not touch the watchdog; no packet is
\* emitted before time_next_packet.
C5_ThrottleWhenQueued ==
    last.op = "dequeue" =>
        /\ (last.qlen0 > 0 /\ now < last.tnp0 =>
               /\ last.skb = NoPkt
               /\ q.watchdog = last.tnp0
               /\ q.time_next_packet = last.tnp0
               /\ q.qlen = last.qlen0)
        /\ (last.qlen0 = 0 => last.skb = NoPkt /\ q.watchdog = last.wd0)
        /\ (last.skb # NoPkt => last.tnp0 <= now)

\* C5 witness: a dequeue entered at a later time than 0 with a packet queued
\* and the shaper's time_next_packet still ahead.
C5_Witness ==
    /\ last.op = "dequeue"
    /\ last.qlen0 > 0
    /\ now > 0
    /\ now < last.tnp0
    /\ q.watchdog = last.tnp0

\* C6: dequeue returns none only when the engine holds no packets as it
\* returns or the shaper throttles (now < time_next_packet); with packets
\* queued and now >= time_next_packet it returns a packet or leaves the engine
\* empty.
C6_NoneOnlyEmptyOrThrottled ==
    last.op = "dequeue" =>
        /\ (last.skb = NoPkt => QueuedPackets = 0 \/ now < q.time_next_packet)
        /\ (last.qlen0 > 0 /\ now >= last.tnp0 => last.skb # NoPkt \/ QueuedPackets = 0)

\* C6 witness: a dequeue entered with packets queued and the shaper open that
\* returns none because CoDel dropped what was left.
C6_Witness ==
    /\ last.op = "dequeue"
    /\ last.skb = NoPkt
    /\ last.qlen0 > 0
    /\ now >= last.tnp0
    /\ last.dropped # <<>>
    /\ QueuedPackets = 0

Log == hist.log
LogBytes(i, j) == SumFn([k \in i .. j |-> Log[k].len], i, j)
LogTx(i, j) == SumFn([k \in i .. j |-> Log[k].tx], i, j)
SameRate(i, j) == \A k \in i .. j : Log[k].rate = Log[i].rate

C8_ResetLikeFresh == sh.on => ~sh.diverged

\* C9: in an engine whose base rate has been zero since init, rate_ns is 0,
\* no emitted packet moves time_next_packet, which is never ahead of the
\* clock, and no dequeue is throttled by the shaper or arms the watchdog.
C9_ZeroRateNeverThrottles ==
    ~hist.ever_rated =>
        /\ q.rate_ns = U32Zero
        /\ q.time_next_packet <= now
        /\ \A k \in 1 .. Len(Log) : Log[k].tx = 0
        /\ (last.op = "dequeue" =>
               /\ last.why # "throttled"
               /\ q.watchdog = last.wd0)

\* C9 witness: with base rate zero, a second packet emitted at the very time
\* of the first, after the clock has advanced.
C9_Witness ==
    /\ ~hist.ever_rated
    /\ Emitted
    /\ now > 0
    /\ Len(Log) >= 2
    /\ Log[Len(Log) - 1].t = now

NoRateNoMemory == q.rate_bps = 0 /\ q.buffer_config_limit = 0

\* C10 as claimed: with base rate zero and no configured memory limit the
\* buffer_limit computed by reconfigure is the maximum representable value.
C10_BufferLimitUnlimited == NoRateNoMemory => q.buffer_limit = U32_MAX

\* C10 amended: with base rate zero and no configured memory limit the
\* buffer_limit computed by reconfigure is sch->limit * psched_mtu (10240
\* packets of one MTU), the unlimited value being clamped to it; enqueue
\* drops for memory pressure above that.
C10_BufferLimitClamped ==
    NoRateNoMemory =>
        /\ q.buffer_limit = ToU32(SchLimit * psched_mtu)
        /\ U32Lt(q.buffer_limit, U32_MAX)

\* C10 witness: the limit computed by a reconfigure run by cake_change.
C10_Witness == NoRateNoMemory /\ last.op = "change" /\ last.ret = "OK"

(* ------------------------------------------------------------------ *)
(* C13: idle periods earn no shaping credit                            *)
(* ------------------------------------------------------------------ *)
\* C13: after a packet is enqueued at time now into an engine that holds no
\* packets, time_next_packet and the chosen tin's tin_time_next_packet are the
\* larger of their old value and now; and of the packets emitted after such an
\* enqueue, the second is not emitted before the time of the enqueue plus the
\* transmit time charged for the first.
C13_IdleNoCredit ==
    /\ (last.op = "enqueue" /\ last.qlen0 = 0) =>
          /\ q.time_next_packet = Max(last.tnp0, now)
          /\ q.tins[last.tin].tin_time_next_packet = Max(last.ttnp0, now)
    /\ (hist.idle.on /\ Len(Log) >= hist.idle.n + 2) =>
          Log[hist.idle.n + 2].t >= hist.idle.t + Log[hist.idle.n + 1].tx

\* C13 witness: an enqueue into an empty engine whose time_next_packet was
\* stale, followed by two emissions under a non-zero rate
C13_Witness ==
    /\ hist.idle.on /\ hist.idle.t > 0
    /\ Len(Log) >= hist.idle.n + 2
    /\ Log[hist.idle.n + 1].tx > 0

(* ------------------------------------------------------------------ *)
(* C15: a rejected change leaves the engine alone                      *)
(* ------------------------------------------------------------------ *)
\* C15: a change request with no option blob or with a blob that fails
\* parsing returns an error status and leaves the whole engine (every
\* configuration parameter, the tins, the queues, buffer_limit, the codepoint
\* map) as it was.
C15_RejectedChangeKeepsAll ==
    [][(last'.op = "change" /\ last'.arg \in {"null", "bad"}) =>
           /\ last'.ret \in {"EINVAL", "EPARSE"}
           /\ q' = q]_vars

\* C15 witness: a rejected change on an engine that holds packets
C15_Witness ==
    /\ last.op = "change" /\ last.arg = "bad" /\ last.ret = "EPARSE"
    /\ q.qlen > 0 /\ last.qlen0 = q.qlen

(* ------------------------------------------------------------------ *)
(* C16: list membership of the flows                                   *)
(* ------------------------------------------------------------------ *)
\* the number of places flow f of tin t takes on the two lists of its tin
Occurrences(xs, f) == Cardinality({i \in 1 .. Len(xs) : xs[i] = f})
OnLists(t, f) ==
    Occurrences(q.tins[t].new_flows, f) + Occurrences(q.tins[t].old_flows, f)

\* C16 as claimed: between operations every flow is on exactly one of
\* {detached, new-flows, old-flows} of its tin, and no flow with zero backlog
\* is on new-flows or old-flows.
C16_NoIdleFlowOnList ==
    \A t \in Tins, f \in Flows :
        /\ OnLists(t, f) <= 1
        /\ q.tins[t].backlogs[f] = 0 => OnLists(t, f) = 0

\* C16 amended: between operations every flow is on exactly one of
\* {detached, new-flows, old-flows} of its tin, and every flow that holds a
\* packet is on new-flows or old-flows; a flow whose FIFO was emptied may still
\* be on its list.
C16_BackloggedFlowOnList ==
    \A t \in Tins, f \in Flows :
        /\ OnLists(t, f) <= 1
        /\ (q.tins[t].flows[f].head # <<>> \/ q.tins[t].backlogs[f] # 0) =>
               OnLists(t, f) = 1

\* C16 witness: dequeue has emitted the last packet of a flow and returned,
\* and the flow is still on a list of its tin
C16_Witness ==
    /\ Emitted
    /\ q.tins[last.tin].backlogs[last.idx] = 0
    /\ OnLists(last.tin, last.idx) = 1

(* ------------------------------------------------------------------ *)
(* C17: activation of a flow by enqueue                                *)
(* ------------------------------------------------------------------ *)
\* C17 as claimed: whenever enqueue adds a packet to a flow whose FIFO was
\* empty, the flow is appended to the tail of its tin's new-flows list and its
\* deficit is set to the tin quantum.
C17_EmptyFifoJoinsNew ==
    [][(last'.op = "enqueue" /\ last'.ret = "NET_XMIT_SUCCESS"
        /\ q.tins[last'.tin].flows[last'.idx].head = <<>>) =>
           /\ q'.tins[last'.tin].new_flows =
                  Append(q.tins[last'.tin].new_flows, last'.idx)
           /\ q'.tins[last'.tin].flows[last'.idx].deficit =
                  q.tins[last'.tin].quantum]_vars

\* C17 amended: whenever enqueue adds a packet to a flow that is on neither
\* list of its tin, the flow is appended to the tail of new-flows and its
\* deficit is set to the tin quantum; a flow that is on a list, its FIFO empty
\* or not, keeps its place and its deficit, and no other change is made to
\* the two lists.
C17_DetachedFlowJoinsNew ==
    [][(last'.op = "enqueue" /\ last'.ret = "NET_XMIT_SUCCESS") =>
           IF list_empty_flowchain(q.tins[last'.tin], last'.idx)
           THEN /\ q'.tins[last'.tin].new_flows =
                       Append(q.tins[last'.tin].new_flows, last'.idx)
                /\ q'.tins[last'.tin].old_flows = q.tins[last'.tin].old_flows
                /\ q'.tins[last'.tin].flows[last'.idx].deficit =
                       q.tins[last'.tin].quantum
           ELSE /\ q'.tins[last'.tin].new_flows = q.tins[last'.tin].new_flows
                /\ q'.tins[last'.tin].old_flows = q.tins[last'.tin].old_flows
                /\ q'.tins[last'.tin].flows[last'.idx].deficit =
                       q.tins[last'.tin].flows[last'.idx].deficit]_vars

\* C17 witness: a flow that has emitted before and was unlinked is given a
\* packet again and is the tail of new-flows with the tin quantum as deficit
C17_Witness ==
    /\ EnqueueOk /\ last.fifo0 = 0 /\ ~last.listed0
    /\ hist.last_out[last.tin][last.idx] > 0
    /\ q.tins[last.tin].new_flows # <<>>
    /\ q.tins[last.tin].new_flows[Len(q.tins[last.tin].new_flows)] = last.idx
    /\ q.tins[last.tin].flows[last.idx].deficit = q.tins[last.tin].quantum

(* ------------------------------------------------------------------ *)
(* C18: the weight a tin is credited with                              *)
(* ------------------------------------------------------------------ *)
\* Within one dequeue call the clock and, up to the emission that ends it, the
\* tins' tin_time_next_packet stay as they are, so every credit a tin is given
\* in the call is of the same weight w and the credit given is a multiple of w.
\* CreditsOfWeight: tin t was given credits of weight w only, each while its
\* deficit was <= 0, and none if its deficit was positive.
CreditsOfWeight(c, deficit0, w) ==
    /\ c >= 0
    /\ IF w = 0 THEN c = 0 ELSE c % w = 0
    /\ deficit0 > 0 => c = 0
    /\ c > 0 => deficit0 + c - w <= 0

\* C18 as claimed: in the tin selection loop a tin whose tin_deficit is <= 0
\* is credited with quantum_prio when its tin_time_next_packet is in the
\* future relative to now and with quantum_band otherwise; a tin with positive
\* deficit is never credited.
C18_PrioWhenInFuture ==
    [][last'.op = "dequeue" =>
          \A t \in Tins :
              CreditsOfWeight(TinCreditGiven(q, q', last'.skb, t),
                              q.tins[t].tin_deficit,
                              IF q.tins[t].tin_time_next_packet > now
                              THEN q.tins[t].tin_quantum_prio
                              ELSE q.tins[t].tin_quantum_band)]_vars

\* C18 amended: in the tin selection loop a tin whose tin_deficit is <= 0 is
\* credited with quantum_band when its tin_time_next_packet is in the future
\* relative to now (the tin has used more than its share) and with
\* quantum_prio otherwise; a tin with positive deficit is never credited.
C18_BandWhenInFuture ==
    [][last'.op = "dequeue" =>
          \A t \in Tins :
              CreditsOfWeight(TinCreditGiven(q, q', last'.skb, t),
                              q.tins[t].tin_deficit,
                              IF q.tins[t].tin_time_next_packet > now
                              THEN q.tins[t].tin_quantum_band
                              ELSE q.tins[t].tin_quantum_prio)]_vars

\* C18 witness: a dequeue call that credited a tin whose tin_time_next_packet
\* was in the future, and emitted a packet
C18_Witness == Emitted /\ last.band

\* ---------------------------------------------------------------------------
\* C19: when dequeue emits a packet of effective length L from tin t, the
\* charge moves the global time_next_packet on by (L * rate_ns) >> rate_shft,
\* moves tin_time_next_packet of tin t and of every tin of lower index on by
\* the same formula at that tin's own rate, takes exactly L off the deficit of
\* the serviced flow and off tin_deficit of tin t, and leaves the shaper times
\* and deficits of all tins of higher index and the deficits of all other
\* flows as they were.
C19_EmissionCharge ==
    Emitted =>
        LET L == ChargedLen(q, last.skb[1].len)
            t == last.tin
            f == last.idx
            pre == last.pre
        IN  /\ q.time_next_packet = pre.tnp + MulShr(L, q.rate_ns, q.rate_shft)
            /\ \A i \in Tins :
                  q.tins[i].tin_time_next_packet =
                      pre.ttnp[i] + (IF i <= t
                                     THEN MulShr(L, q.tins[i].tin_rate_ns,
                                                 q.tins[i].tin_rate_shft)
                                     ELSE 0)
            /\ q.tins[t].tin_deficit = pre.tdef[t] - L
            /\ q.tins[t].flows[f].deficit = pre.fdef[t][f] - L
            /\ \A i \in Tins : i > t => q.tins[i].tin_deficit = pre.tdef[i]
            /\ \A i \in Tins, g \in Flows :
                  (i # t \/ g # f) => q.tins[i].flows[g].deficit = pre.fdef[i][g]

\* a packet was emitted from a tin above tin 0 while a tin of higher index
\* exists, and the charge moved the shaper times of tin 0 and of the serviced
\* tin
C19_Witness ==
    /\ Emitted
    /\ last.tin > 0
    /\ last.tin < q.tin_cnt - 1
    /\ q.tins[0].tin_time_next_packet > last.pre.ttnp[0]
    /\ q.tins[last.tin].tin_time_next_packet > last.pre.ttnp[last.tin]
    /\ q.time_next_packet > last.pre.tnp


\* ---------------------------------------------------------------------------
\* the flow of the emitted packet heads the list served and its deficit was
\* positive when it was selected
ServedFlowRule ==
    Emitted =>
        LET b == q.tins[last.tin]
        IN  /\ last.idx = Head(IF b.new_flows # <<>> THEN b.new_flows
                                                     ELSE b.old_flows)
            /\ last.pre.fdef[last.tin][last.idx] > 0

\* in a dequeue call a flow is credited with the flow quantum only, each time
\* while its deficit is <= 0, and a credited flow was on a list and is no
\* longer on new-flows
FlowCreditRule ==
    last'.op = "dequeue" =>
        \A t \in Tins, f \in Flows :
            LET c == FlowCreditGiven(q, q', last'.skb, t, f)
            IN  /\ CreditsOfWeight(c, q.tins[t].flows[f].deficit,
                                   q.tins[t].quantum)
                /\ c > 0 => /\ Occurrences(q'.tins[t].new_flows, f) = 0
                            /\ Occurrences(q.tins[t].new_flows, f)
                                 + Occurrences(q.tins[t].old_flows, f) = 1

RECURSIVE FlowBytes(_, _, _)
FlowBytes(i, j, f) ==
    IF i > j THEN 0
    ELSE (IF Log[j].idx = f THEN Log[j].len ELSE 0) + FlowBytes(i, j - 1, f)

\* the emissions i .. j are all of one tin, whose flows were all backlogged
\* before and after each of them
BackloggedWindow(i, j) ==
    /\ i <= j
    /\ \A k \in i .. j : Log[k].both /\ Log[k].tin = Log[i].tin

\* the largest gap between the bytes of two flows over a backlogged window
Gap(i, j) ==
    LET a == FlowBytes(i, j, 0)
        b == FlowBytes(i, j, 1)
    IN  IF a >= b THEN a - b ELSE b - a

\* C12 as claimed: while two flows of the same tin are both continuously
\* backlogged, the bytes dequeued from one never exceed the bytes dequeued
\* from the other by more than the tin quantum plus the largest effective
\* packet length.
C12_GapWithinQuantumPlusPacket ==
    \A i, j \in 1 .. Len(Log) :
        BackloggedWindow(i, j) => Gap(i, j) <= Log[i].quantum + DrrMaxLen

\* C12 amended: while two flows of the same tin are both continuously
\* backlogged, the bytes dequeued from one exceed the bytes dequeued from the
\* other by less than three times the tin quantum plus twice the largest
\* effective packet length.
C12_GapWithinThreeQuanta ==
    \A i, j \in 1 .. Len(Log) :
        BackloggedWindow(i, j) => Gap(i, j) < 3 * Log[i].quantum + 2 * DrrMaxLen

\* three emissions in a row with both flows backlogged throughout, both flows
\* served in them
C12_Witness ==
    \E i \in 1 .. Len(Log) :
        /\ i + 2 <= Len(Log)
        /\ BackloggedWindow(i, i + 2)
        /\ FlowBytes(i, i + 2, 0) > 0
        /\ FlowBytes(i, i + 2, 1) > 0


\* ---------------------------------------------------------------------------
\* C14: dumping the configuration and feeding the dumped values back through
\* change yields an engine whose externally observable parameters (base rate,
\* diffserv mode, atm, wash, autorate, flow mode, overhead including negative
\* values, rtt/interval, target, memory) are those it had before, and applying
\* the same change twice gives the same result as applying it once.
C14_DumpChangeRoundTrip ==
    /\ last.op = "dumpchange" => last.ret = "OK" /\ Params(q) = last.par0
    /\ (last.op \in {"change", "dumpchange"} /\ last.ret = "OK") =>
           cake_change(q, last.opt) = [q |-> q, err |-> "OK"]

\* a dump was fed back to an engine with a negative overhead, flags set, a
\* memory limit and interval and target apart
C14_Witness ==
    /\ last.op = "dumpchange"
    /\ q.rate_overhead < 0
    /\ q.rate_flags # {}
    /\ q.interval # q.target
    /\ q.rate_bps # 0


\* ---------------------------------------------------------------------------
\* a dequeue call emitted a packet of tin t or dropped one in its AQM
ServedOrDropped(t) ==
    /\ last.op = "dequeue"
    /\ \/ last.skb # NoPkt /\ last.tin = t
       \/ \E i \in 1 .. Len(last.dropped) : last.dropped[i].home[1] = t

ListedFlows(e) ==
    {<<j, f>> \in Tins \X Flows :
        j < e.tin_cnt /\ ~list_empty_flowchain(e.tins[j], f)}

\* a call of cake_drop that took engine q0 to r.q and reported flow r.idx of
\* tin r.tin and the packet r.skb: the packet was the head of a listed flow of
\* largest backlog, it is taken off every account, and no list and no deficit
\* has changed
DropFrame(q0, r) ==
    /\ ~r.q.oops
    /\ Len(r.skb) = 1
    /\ <<r.tin, r.idx>> \in ListedFlows(q0)
    /\ q0.tins[r.tin].flows[r.idx].head # <<>>
    /\ r.skb[1] = Head(q0.tins[r.tin].flows[r.idx].head)
    /\ \A v \in ListedFlows(q0) :
          q0.tins[v[1]].backlogs[v[2]] <= q0.tins[r.tin].backlogs[r.idx]
    /\ r.q.tins[r.tin].flows[r.idx].head = Tail(q0.tins[r.tin].flows[r.idx].head)
    /\ r.q.buffer_used = q0.buffer_used - r.skb[1].truesize
    /\ r.q.tins[r.tin].backlogs[r.idx] = q0.tins[r.tin].backlogs[r.idx] - r.skb[1].len
    /\ r.q.tins[r.tin].tin_backlog = q0.tins[r.tin].tin_backlog - r.skb[1].len
    /\ r.q.backlog = q0.backlog - r.skb[1].len
    /\ r.q.qlen = q0.qlen - 1
    /\ r.q.drops = q0.drops + 1
    /\ r.q.tins[r.tin].tin_dropped = q0.tins[r.tin].tin_dropped + 1
    /\ r.q.tins[r.tin].flows[r.idx].dropped = q0.tins[r.tin].flows[r.idx].dropped + 1
    /\ \A j \in Tins :
          /\ r.q.tins[j].new_flows = q0.tins[j].new_flows
          /\ r.q.tins[j].old_flows = q0.tins[j].old_flows
          /\ \A f \in Flows : r.q.tins[j].flows[f].deficit = q0.tins[j].flows[f].deficit

\* C21: each call of drop removes the head packet of a flow whose backlog in
\* bytes is maximal among all flows on the new/old lists of all active tins,
\* updates buffer_used, flow backlog, tin backlog, reported backlog, queue
\* length and drop counters for that packet, and changes no flow's list
\* membership or deficit, even when the victim flow becomes empty.
C21_DropFrame ==
    [][last'.op = "drop" =>
          DropFrame(q, [q |-> q', tin |-> last'.tin, idx |-> last'.idx,
                        skb |-> last'.dropped])]_vars

\* what one step does to the global shaper's time_next_packet
ShaperAdvance ==
    /\ q'.time_next_packet >= q.time_next_packet
    /\ last'.op = "dequeue" =>
          q'.time_next_packet - q.time_next_packet =
              IF last'.skb = NoPkt THEN 0
              ELSE MulShr(ChargedLen(q, last'.skb[1].len), q.rate_ns, q.rate_shft)
    /\ last'.op = "enqueue" =>
          \/ q'.time_next_packet = q.time_next_packet
          \/ q.time_next_packet < now /\ q'.time_next_packet = now
    /\ last'.op \notin {"dequeue", "enqueue"} =>
          q'.time_next_packet = q.time_next_packet

\* C22: over every sequence of operations (the clock never runs backwards)
\* the global shaper's time_next_packet never decreases: a dequeue adds the
\* non-negative transmit time of the packet it emits and nothing otherwise, an
\* enqueue either leaves it or moves a value that is behind the clock forward
\* to now, and no other operation writes it.
C22_ShaperNeverDecreases == [][now' >= now /\ ShaperAdvance]_vars

\* C22 witness: a dequeue whose emitted packet moved time_next_packet on from
\* the value an earlier enqueue into the idle engine had brought up to the
\* clock.
C22_Witness ==
    /\ last.op = "dequeue" /\ last.skb # NoPkt
    /\ q.time_next_packet > last.tnp0
    /\ hist.idle.on /\ hist.idle.t > 0
    /\ last.tnp0 >= hist.idle.t

\* bytes, buffer space and number of the packets held by the tins from c up
RECURSIVE PktBytes(_)
PktBytes(pkts) == IF pkts = <<>> THEN 0 ELSE Head(pkts).len + PktBytes(Tail(pkts))
RECURSIVE PktSpace(_)
PktSpace(pkts) ==
    IF pkts = <<>> THEN 0 ELSE Head(pkts).truesize + PktSpace(Tail(pkts))
HeldFrom(e, c, Measure(_)) ==
    SumFn([t \in Tins |->
              IF t < c THEN 0
              ELSE SumFn([f \in Flows |-> Measure(e.tins[t].flows[f].head)],
                         0, FlowsCnt - 1)],
          0, CAKE_MAX_TINS - 1)

\* what a reconfiguration from q0 to q1 does to the queued packets, the
\* reported backlog apart
ReconfigureRemoves(q0, q1) ==
    /\ \A t \in Tins, f \in Flows :
          /\ q1.tins[t].flows[f].head =
                 IF t >= q1.tin_cnt THEN <<>> ELSE q0.tins[t].flows[f].head
          /\ q1.tins[t].backlogs[f] =
                 q0.tins[t].backlogs[f]
                 - (IF t >= q1.tin_cnt THEN PktBytes(q0.tins[t].flows[f].head) ELSE 0)
    /\ \A t \in Tins :
          q1.tins[t].tin_backlog =
              q0.tins[t].tin_backlog
              - (IF t >= q1.tin_cnt
                 THEN SumFn([f \in Flows |-> PktBytes(q0.tins[t].flows[f].head)],
                            0, FlowsCnt - 1)
                 ELSE 0)
    /\ q1.buffer_used = q0.buffer_used - HeldFrom(q0, q1.tin_cnt, PktSpace)
    /\ q1.qlen = q0.qlen - HeldFrom(q0, q1.tin_cnt, Len)

\* C23: a reconfiguration removes exactly the packets queued in the tins of
\* index >= the new tin_cnt and leaves the packets of every lower tin in place
\* and in order; the flow backlogs, the tin backlogs, buffer_used, the queue
\* length and the reported backlog are all reduced by the removed packets.
C23_ReconfigureFrame ==
    [][last'.op = "change" /\ last'.ret = "OK" =>
          /\ ReconfigureRemoves(q, q')
          /\ q'.backlog = q.backlog - HeldFrom(q, q'.tin_cnt, PktBytes)]_vars

\* an IP or non-IP packet carrying the codepoint d
Codepoint(d, ip) ==
    MkPacket([len |-> 100, ip |-> ip, dscp |-> d, ect |-> FALSE, gso |-> 0], 0, 0)

\* C24: in Precedence mode tin_cnt is 8 and each of the 64 codepoints is
\* classified to tin min(dscp >> 3, tin_cnt - 1); in every mode and after
\* every reconfiguration the tin chosen for any packet is < tin_cnt, a
\* non-IP packet goes to the tin of codepoint 0, and the tin every enqueue
\* call chose is < tin_cnt.
C24_Classification ==
    /\ q.tin_mode = CAKE_MODE_PRECEDENCE =>
          /\ q.tin_cnt = 8
          /\ \A d \in 0 .. 63 :
                ClassifyTin(q, Codepoint(d, TRUE)) = Min(d \div 8, q.tin_cnt - 1)
    /\ \A d \in 0 .. 63 :
          /\ ClassifyTin(q, Codepoint(d, TRUE)) < q.tin_cnt
          /\ ClassifyTin(q, Codepoint(d, FALSE)) = ClassifyTin(q, Codepoint(0, TRUE))
    /\ last.op = "enqueue" => last.tin < q.tin_cnt

\* C24 witness: after a reconfiguration that kept Precedence mode, an enqueue
\* of a packet with codepoint 46 chose tin 5.
C24_Witness ==
    /\ q.tin_mode = CAKE_MODE_PRECEDENCE /\ hist.changes > 0
    /\ last.op = "enqueue" /\ last.tin = 5

\* L_eff of a packet of L bytes as the integers give it
EffectiveLength(e, L) ==
    IF "ATM" \in e.rate_flags
    THEN (-((-(L + e.rate_overhead)) \div 48)) * 53
    ELSE L + e.rate_overhead

\* C25: the length charged for an emitted packet of L bytes is
\* L_eff = L + overhead, and ceil((L + overhead) / 48) * 53 in ATM mode, for
\* every packet length and every signed overhead, a negative overhead larger
\* than L included: the u32 charged is the integer L_eff, with no wrap-around
\* at 2^32.
C25_EffectiveLength ==
    last.op = "overhead" =>
        /\ EffectiveLength(q, last.arg) >= 0
        /\ last.par0 = ToU32(EffectiveLength(q, last.arg))

\* C26: in every reachable state every flow whose FIFO is non-empty is on
\* new_flows or old_flows of its tin, every tin with non-zero tin_backlog has
\* a non-empty flow list, and no dequeue has gone through the "shouldn't ever
\* happen" branch (both lists empty with tin_backlog non-zero).
C26_BacklogHasFlowList ==
    /\ \A t \in Tins, f \in Flows :
          q.tins[t].flows[f].head # <<>> => ~list_empty_flowchain(q.tins[t], f)
    /\ \A t \in Tins :
          q.tins[t].tin_backlog # 0 =>
              q.tins[t].new_flows # <<>> \/ q.tins[t].old_flows # <<>>
    /\ ~q.warned

\* C26 witness: a dequeue, made after a reset, has emitted a packet from a tin
\* that still has backlog, and a flow list of that tin is non-empty.
C26_Witness ==
    /\ last.op = "dequeue" /\ last.skb # NoPkt /\ hist.resets > 0
    /\ q.tins[last.tin].tin_backlog # 0
    /\ q.tins[last.tin].new_flows # <<>> \/ q.tins[last.tin].old_flows # <<>>

\* C27: in every state reached by enqueue, dequeue, drop, reset and
\* reconfiguration, bulk_flow_count of each tin is the number of flows on the
\* tin's old_flows list: it has been incremented on every move from new_flows
\* to old_flows, decremented on every detach from old_flows, and has not
\* wrapped below zero.
C27_BulkFlowCount ==
    \A t \in Tins : q.tins[t].bulk_flow_count = Len(q.tins[t].old_flows)

\* C27 witness: a dequeue call has detached a flow that was on old_flows of a
\* tin and has left another flow on that list, in a run that also had a drop,
\* a reset or a reconfiguration.
C27_Witness ==
    /\ last.op = "dequeue"
    /\ hist.drop_calls + hist.resets + hist.changes > 0
    /\ \E t \in Tins, f \in Flows :
          /\ f \in SeqToSet(last.old0[t])
          /\ list_empty_flowchain(q.tins[t], f)
          /\ q.tins[t].bulk_flow_count > 0

\* C28: every dequeue call terminates. In every reachable state, those left
\* by reset and reconfiguration included, a non-zero queue length means that
\* some tin of index < tin_cnt has backlog, and the dequeue call made there
\* returns: the tin selection loop, the flow retry loop and the restarts after
\* AQM drops end within the loop fuel; no dequeue call of the run has run out
\* of it.
C28_DequeueTerminates ==
    /\ q.qlen # 0 => \E t \in Tins : t < q.tin_cnt /\ q.tins[t].tin_backlog # 0
    /\ cake_dequeue(q, now).why # "hung"
    /\ last.op = "dequeue" => last.why # "hung"

\* C28 witness: after a reset, a dequeue call dropped packets in the AQM,
\* restarted, and returned a packet.
C28_Witness ==
    /\ last.op = "dequeue" /\ last.skb # NoPkt
    /\ last.dropped # <<>>
    /\ hist.resets > 0

\* the packets a dequeue call took out of the FIFOs: the one it returned and
\* those the AQM dropped
Removed(l) == SeqToSet(l.skb \o l.dropped)

\* C29: whatever the cursors were when a dequeue call began (reset and
\* reconfiguration leave cur_tin at the last cleared tin and cur_flow at
\* flows_cnt), every packet the call removes was queued on a tin of index
\* < tin_cnt and a flow of index < flows_cnt and is taken from that flow's FIFO,
\* and a call that returns a packet leaves both cursors within these ranges, on
\* the flow the packet came from.
C29_ServedWithinRange ==
    [][last'.op = "dequeue" =>
          /\ \A p \in Removed(last') :
                /\ p.home[1] < q.tin_cnt /\ p.home[2] < FlowsCnt
                /\ \E i \in 1 .. Len(q.tins[p.home[1]].flows[p.home[2]].head) :
                      q.tins[p.home[1]].flows[p.home[2]].head[i].id = p.id
          /\ last'.skb # NoPkt =>
                /\ q'.cur_tin < q'.tin_cnt /\ q'.cur_flow < FlowsCnt
                /\ last'.skb[1].home = <<q'.cur_tin, q'.cur_flow>>]_vars

\* C29 witness: a dequeue call that began, after a reset, with cur_tin at the
\* last tin (beyond tin_cnt) and cur_flow at flows_cnt has returned a packet.
C29_Witness ==
    /\ last.op = "dequeue" /\ last.skb # NoPkt
    /\ hist.resets > 0
    /\ last.cur0 = <<CAKE_MAX_TINS - 1, FlowsCnt>>
    /\ q.tin_cnt < CAKE_MAX_TINS

====
